---------------------------- MODULE Spec2Model ----------------------------
(***************************************************************************)
(* Verification model of the groot DNS verifier.                           *)
(*                                                                         *)
(*   Groot_v1  : step2 label graph, step3 equivalence classes, step4       *)
(*               symbolic lookup and interpretation-graph worklist         *)
(*   raw API   : run_baseline.py (LabelGraph, Resolver, get_paths)         *)
(*                                                                         *)
(* A domain name is a sequence of labels in DNS (leaf-first) order; its    *)
(* string form is the labels joined by "." plus a final ".", so            *)
(* <<"www","a","com">> is "www.a.com." and <<>> is the root ".".           *)
(***************************************************************************)
EXTENDS Integers, Sequences, FiniteSets, TLC

VARIABLES
    \* ---- Groot_v1 step4: generate_interpretation_graphs, one EC ----
    dns_config,       \* [Theta, Gamma, zone_map]
    ec,               \* [query, types] : query_domain and ec['query_types']
    graph_nodes,      \* node_id -> InterpretationNode (ids are 1..Len)
    graph_edges,      \* list of InterpretationEdge
    visited_states,   \* set of <<state_key, node_id>>
    worklist,         \* FIFO list of (state, parent_id, edge_action)
    node_depth,       \* history: number of edges from an entry state at creation
    last_pop,         \* history: what the last loop iteration popped and did
    \* ---- Groot_v1 step2/step3: generate_equivalence_classes ----
    label_graph,      \* [nodes, edges] returned by construct_label_graph
    stack,            \* DFS stack of {'node', 'path', 'history'}
    ec_list,          \* the ECs emitted so far
    ec_counter,       \* ec_counter
    last_dfs,         \* history: the state popped by the last iteration and its fate
    \* ---- raw API: Resolver.resolve, one query ----
    config,           \* DNSConfiguration: [top_name_servers, zones_by_ns]
    ec_query,         \* graph.ec_query: the query being resolved
    bl_nodes,         \* graph.nodes in insertion order: [key, ns, query, answer, depth, is_sink]
    bl_edges,         \* graph.edges: list of [from, to, type]
    entry_points,     \* graph.entry_points: list of node keys
    bl_q,             \* the deque of (from_ns, from_q, to_ns, to_q, depth)
    bl_visited,       \* set of (ns_domain, repr(current_q), depth)
    last_resolve,     \* history: the item popped by the last iteration and what it enqueued
    \* ---- raw API: InterpretationGraph.get_paths ----
    gp_pc,            \* "idle" before the call, "running", "done" after the return
    entry_idx,        \* position of the entry point whose paths are enumerated
    path_q,           \* the deque of paths (lists of node keys)
    paths,            \* the finished paths
    gp_steps,         \* history: number of paths popped so far
    \* ---- raw API: LabelGraph.generate_ecs ----
    bl_lg,            \* the label graph built by add_domain
    call_stack,       \* the frames of traverse(): [node, path_labels, pc, todo]
    ecs,              \* the ECs appended so far
    lg_status,        \* "running", "returned" or "RecursionError"
    \* ---- one call of a function that has no state of its own ----
    fn_args,          \* [fn, ...]: the function called and its arguments
    fn_result,        \* the value returned
    fn_pc             \* "idle", "called" or "returned"

igVars == <<dns_config, ec, graph_nodes, graph_edges, visited_states,
            worklist, node_depth, last_pop>>

ecVars == <<label_graph, stack, ec_list, ec_counter, last_dfs>>

resolveVars == <<config, ec_query, bl_nodes, bl_edges, entry_points, bl_q, bl_visited, last_resolve>>

pathVars == <<gp_pc, entry_idx, path_q, paths, gp_steps>>

lgVars == <<bl_lg, call_stack, ecs, lg_status>>

fnVars == <<fn_args, fn_result, fn_pc>>

vars == <<igVars, ecVars, resolveVars, pathVars, lgVars, fnVars>>

-----------------------------------------------------------------------------
(* Bounds of the model *)

\* the worklist loop of step4 is cut off after this many created nodes
MaxNodes == 19

\* a resolution computed in one go stops after this many loop iterations
MaxIGSteps == 12

-----------------------------------------------------------------------------
(* Program constants *)

MAX_RESOLUTION_DEPTH == 15

\* the fuel of the interpretation-graph builder (default 15)
Fuel == MAX_RESOLUTION_DEPTH

-----------------------------------------------------------------------------
(* Names and records *)

Root == <<>>

IsSuffix(s, q) ==
    /\ Len(s) <= Len(q)
    /\ SubSeq(q, Len(q) - Len(s) + 1, Len(q)) = s

\* drop the i leftmost labels: ".".join(q_labels[i:]) + "."
StripLeft(q, i) == SubSeq(q, i + 1, Len(q))

RR(name, type, rdata) == [name |-> name, type |-> type, rdata |-> rdata]

NS1 == <<"ns1">>
NS2 == <<"ns2">>
NS3 == <<"ns3">>
NS4 == <<"ns4">>

\* Python's sorted() on strings, by the position of the string in a list that
\* enumerates the strings in use in ascending order
RankIn(order, v) == CHOOSE i \in 1..Len(order) : order[i] = v

\* stable sort: element i goes behind the smaller elements and the equal
\* elements that precede it
SortedBy(order, s) ==
    LET before(i) == { j \in 1..Len(s) :
                         \/ RankIn(order, s[j]) < RankIn(order, s[i])
                         \/ (RankIn(order, s[j]) = RankIn(order, s[i]) /\ j < i) }
    IN [k \in 1..Len(s) |-> s[CHOOSE i \in 1..Len(s) : Cardinality(before(i)) = k - 1]]

\* the NS targets in use, ascending
SortOrder == <<NS1, NS2, NS3, NS4>>

Sorted(s) == SortedBy(SortOrder, s)

SeqToSet(s) == { s[i] : i \in 1..Len(s) }


RECURSIVE Concat(_)
Concat(ss) == IF ss = <<>> THEN <<>> ELSE Head(ss) \o Concat(Tail(ss))

Min(S) == CHOOSE m \in S : \A n \in S : m <= n

-----------------------------------------------------------------------------
(* Groot_v1 step4: find_authoritative_zone *)

\* z_name == '.' or q_norm == z_name or q_norm.endswith("." + z_name)
ZoneMatches(z_name, q) == z_name = Root \/ q = z_name \/ IsSuffix(z_name, q)

\* The loop keeps the first zone with the strictly largest label count among
\* the matching zones of Gamma[server] that are present in the zone map.
\* NoZone stands for None.
NoZone == [origin |-> <<"">>, records |-> <<>>]

find_authoritative_zone(server, query, cfg) ==
    IF server \notin DOMAIN cfg.Gamma THEN NoZone
    ELSE LET served == cfg.Gamma[server]
             ok(i) == /\ ZoneMatches(served[i], query)
                      /\ served[i] \in DOMAIN cfg.zone_map
             cands == { i \in 1..Len(served) : ok(i) }
         IN IF cands = {} THEN NoZone
            ELSE LET best == CHOOSE i \in cands :
                               \A j \in cands :
                                 \/ Len(served[j]) < Len(served[i])
                                 \/ (Len(served[j]) = Len(served[i]) /\ i <= j)
                 IN cfg.zone_map[served[best]]

-----------------------------------------------------------------------------
(* Groot_v1 step4: symbolic_server_lookup *)

\* name in records_map
Owned(zone, name) == \E i \in 1..Len(zone.records) : zone.records[i].name = name

\* set(records_map[name].keys())
TypesAt(zone, name) ==
    { zone.records[i].type : i \in { j \in 1..Len(zone.records) : zone.records[j].name = name } }

\* records_map[name][t], in zone order
RRSet(zone, name, t) == SelectSeq(zone.records, LAMBDA r : r.name = name /\ r.type = t)

\* "went above zone origin": len(sub) < len(origin) or not sub.endswith(origin).
\* sub is always a label suffix of a query inside the zone, where the
\* character test and the label test agree.
AboveOrigin(sub, origin) == Len(sub) < Len(origin) \/ ~IsSuffix(origin, sub)

\* variant: the walk does not stop at the first owned name and keeps the last one
ClosestEncloserShortest(zone, q) ==
    IF Owned(zone, q) THEN q
    ELSE LET owned == { i \in 1..Len(q) :
                          /\ ~AboveOrigin(StripLeft(q, i), zone.origin)
                          /\ Owned(zone, StripLeft(q, i)) }
         IN IF owned = {} THEN zone.origin ELSE StripLeft(q, CHOOSE m \in owned : \A n \in owned : n <= m)

ClosestEncloser(zone, q) ==
    IF Owned(zone, q) THEN q
    ELSE LET stops == { i \in 1..Len(q) :
                          \/ AboveOrigin(StripLeft(q, i), zone.origin)
                          \/ Owned(zone, StripLeft(q, i)) }
         IN IF stops = {} THEN zone.origin
            ELSE LET sub == StripLeft(q, Min(stops))
                 IN IF AboveOrigin(sub, zone.origin) THEN zone.origin ELSE sub

\* outcome_new_query = '' when the outcome is not a rewrite
NoQuery == <<"">>

\* prefix = q_norm[:-len(closest_encloser)]; new query = prefix + dname_target.
\* For the root encloser "." only the final dot is cut, so the last label of
\* the prefix and the first label of the target run together.
DnameRewrite(q, ce, target) ==
    LET prefix == SubSeq(q, 1, Len(q) - Len(ce))
    IN IF ce = Root /\ target # Root
       THEN SubSeq(prefix, 1, Len(prefix) - 1)
              \o << prefix[Len(prefix)] \o target[1] >> \o Tail(target)
       ELSE prefix \o target

\* "*." + closest_encloser ; for the root this is the string "*.."
WildcardName(ce) == IF ce = Root THEN <<"*", "">> ELSE <<"*">> \o ce

Outcome(type, targets, new_query, records) ==
    [type |-> type, targets |-> targets, new_query |-> new_query, records |-> records]

\* the CNAME / data / NODATA choice on the record types of one owner
DataOutcome(zone, owner, t) ==
    IF "CNAME" \in TypesAt(zone, owner) /\ t # "CNAME"
    THEN Outcome("ANSQ", <<>>, RRSet(zone, owner, "CNAME")[1].rdata, RRSet(zone, owner, "CNAME"))
    ELSE IF t \in TypesAt(zone, owner)
    THEN Outcome("ANS", <<>>, NoQuery, RRSet(zone, owner, t))
    ELSE Outcome("ANS", <<>>, NoQuery, <<>>)

RefOutcome(zone, ce) ==
    LET ns_records == RRSet(zone, ce, "NS")
    IN Outcome("REF", Sorted([i \in 1..Len(ns_records) |-> ns_records[i].rdata]),
               NoQuery, ns_records)

\* the body of "for t in types"
LookupType(zone, q, t) ==
    LET ce == ClosestEncloser(zone, q)
        rr_types == TypesAt(zone, ce)
        has_dname == "DNAME" \in rr_types
        is_delegation == "NS" \in rr_types /\ "SOA" \notin rr_types
    IN IF ce = q
       THEN IF is_delegation THEN RefOutcome(zone, ce) ELSE DataOutcome(zone, ce, t)
       ELSE IF has_dname
            THEN Outcome("ANSQ", <<>>,
                         DnameRewrite(q, ce, RRSet(zone, ce, "DNAME")[1].rdata),
                         RRSet(zone, ce, "DNAME"))
            ELSE IF is_delegation THEN RefOutcome(zone, ce)
            ELSE IF Owned(zone, WildcardName(ce))
                 THEN DataOutcome(zone, WildcardName(ce), t)
                 ELSE Outcome("NX", <<>>, NoQuery, <<>>)

OutcomeKey(o) == <<o.type, o.targets, o.new_query>>

\* outcomes[key]['types'].append(t); outcomes[key]['records'].extend(used)
AddOutcome(acc, o, t) ==
    IF \E i \in 1..Len(acc) : OutcomeKey(acc[i]) = OutcomeKey(o)
    THEN LET i == CHOOSE j \in 1..Len(acc) : OutcomeKey(acc[j]) = OutcomeKey(o)
         IN [acc EXCEPT ![i].types = Append(@, t), ![i].records = @ \o o.records]
    ELSE Append(acc, [type |-> o.type, targets |-> o.targets, new_query |-> o.new_query,
                      types |-> <<t>>, records |-> o.records])

RECURSIVE GroupOutcomes(_, _, _, _)
GroupOutcomes(zone, q, types, acc) ==
    IF types = <<>> THEN acc
    ELSE GroupOutcomes(zone, q, Tail(types),
                       AddOutcome(acc, LookupType(zone, q, Head(types)), Head(types)))

\* result list: one group per distinct (type, targets, new_query), in order of
\* first occurrence
symbolic_server_lookup(zone, q, types) == GroupOutcomes(zone, q, types, <<>>)

-----------------------------------------------------------------------------
(* Groot_v1 step4: generate_interpretation_graphs, the worklist of one EC *)

\* parent_id None
NoParent == 0

WorkItem(server, query, types, parent_id, edge_action) ==
    [server |-> server, query |-> query, types |-> types,
     parent_id |-> parent_id, edge_action |-> edge_action]

\* variant: the cache is keyed on the whole worklist tuple
StateKeyWithParent(w) == <<w.server, w.query, SeqToSet(w.types), w.parent_id>>

\* state_key = (server, query, frozenset(current_types))
StateKey(w) == <<w.server, w.query, SeqToSet(w.types)>>

IsVisited(visited, key) == \E p \in visited : p[1] = key

VisitedId(visited, key) == (CHOOSE p \in visited : p[1] = key)[2]

\* variant: source and target swapped
EdgeSwapped(source_id, target_id, action) ==
    [source_id |-> target_id, target_id |-> source_id, action |-> action]

Edge(source_id, target_id, action) ==
    [source_id |-> source_id, target_id |-> target_id, action |-> action]

\* for root in dns_config['Theta']: worklist.append((initial_state, None, None))
InitialWorklist(cfg, e) ==
    [i \in 1..Len(cfg.Theta) |-> WorkItem(cfg.Theta[i], e.query, e.types, NoParent, "none")]

\* what one outcome group appends to the worklist
OutcomeSuccessors(cfg, node_id, query, o) ==
    IF o.type = "REF"
    THEN [i \in 1..Len(o.targets) |->
            WorkItem(o.targets[i], query, o.types, node_id, "referral")]
    ELSE IF o.type = "ANSQ"
    THEN [i \in 1..Len(cfg.Theta) |->
            WorkItem(cfg.Theta[i], o.new_query, o.types, node_id, "rewrite")]
    ELSE <<>>

Successors(cfg, node_id, query, outcomes) ==
    Concat([i \in 1..Len(outcomes) |-> OutcomeSuccessors(cfg, node_id, query, outcomes[i])])

\* node['answer']: the type of the first ANS/NX outcome, "None" otherwise
FirstAnswer(outcomes) ==
    LET hits == { i \in 1..Len(outcomes) : outcomes[i].type \in {"ANS", "NX"} }
    IN IF hits = {} THEN "None" ELSE outcomes[Min(hits)].type

NewNode(node_id, w, tags, records, answer) ==
    [node_id |-> node_id, nameserver |-> w.server, current_query |-> w.query,
     query_type_bitmap |-> w.types, tags |-> tags, records |-> records,
     answer |-> answer]

\* One iteration of "while worklist" on the graph state
\* st = [nodes, edges, visited, worklist].
IGStep(cfg, st) ==
    LET w == Head(st.worklist)
        rest == Tail(st.worklist)
        key == StateKey(w)
    IN IF IsVisited(st.visited, key)
       THEN LET e == Edge(w.parent_id, VisitedId(st.visited, key), w.edge_action)
            IN [st EXCEPT !.worklist = rest,
                          !.edges = IF w.parent_id # NoParent /\ e \notin SeqToSet(st.edges)
                                    THEN Append(st.edges, e) ELSE st.edges]
       ELSE LET node_id == Len(st.nodes) + 1
                zone == find_authoritative_zone(w.server, w.query, cfg)
                edges1 == IF w.parent_id # NoParent
                          THEN Append(st.edges, Edge(w.parent_id, node_id, w.edge_action))
                          ELSE st.edges
                visited1 == st.visited \cup { <<key, node_id>> }
            IN IF zone = NoZone
               THEN [nodes |-> Append(st.nodes, NewNode(node_id, w, {"REFUSED"}, <<>>, "None")),
                     edges |-> edges1, visited |-> visited1, worklist |-> rest]
               ELSE LET outcomes == symbolic_server_lookup(zone, w.query, w.types)
                        tags == { outcomes[i].type : i \in 1..Len(outcomes) }
                        records == Concat([i \in 1..Len(outcomes) |-> outcomes[i].records])
                    IN [nodes |-> Append(st.nodes,
                                         NewNode(node_id, w, tags, records, FirstAnswer(outcomes))),
                        edges |-> edges1, visited |-> visited1,
                        worklist |-> rest \o Successors(cfg, node_id, w.query, outcomes)]

IGState == [nodes |-> graph_nodes, edges |-> graph_edges,
            visited |-> visited_states, worklist |-> worklist]

-----------------------------------------------------------------------------
(* Groot_v1 step2: construct_label_graph *)

Reverse(s) == [i \in 1..Len(s) |-> s[Len(s) + 1 - i]]

\* get_labels: the labels of a name in TLD -> leaf order
get_labels(domain) == Reverse(domain)

root_id == 0

LGNode(id, label, is_wildcard) == [id |-> id, label |-> label, is_wildcard |-> is_wildcard]

LGEdge(source_id, target_id, edge_type, label) ==
    [source_id |-> source_id, target_id |-> target_id, edge_type |-> edge_type, label |-> label]

\* the builder state after line 43: the root node, no edges, _next_id = 1
EmptyLabelGraph ==
    [nodes |-> (root_id :> LGNode(root_id, "", FALSE)), edges |-> <<>>, next_id |-> 1]

\* label in adj[current_node] ; adj[current_node][label]
AdjHas(g, cur, label) ==
    \E k \in 1..Len(g.edges) :
        g.edges[k].edge_type = "child" /\ g.edges[k].source_id = cur /\ g.edges[k].label = label

AdjChild(g, cur, label) ==
    g.edges[CHOOSE k \in 1..Len(g.edges) :
              g.edges[k].edge_type = "child" /\ g.edges[k].source_id = cur
              /\ g.edges[k].label = label].target_id

\* insert_path from current node cur; returns the graph and the last node
RECURSIVE insert_path(_, _, _)
insert_path(g, cur, labels) ==
    IF labels = <<>> THEN [g |-> g, node |-> cur]
    ELSE IF AdjHas(g, cur, Head(labels))
    THEN insert_path(g, AdjChild(g, cur, Head(labels)), Tail(labels))
    ELSE LET new_id == g.next_id
             g1 == [nodes |-> g.nodes @@ (new_id :> LGNode(new_id, Head(labels), Head(labels) = "*")),
                    edges |-> Append(g.edges, LGEdge(cur, new_id, "child", Head(labels))),
                    next_id |-> new_id + 1]
         IN insert_path(g1, new_id, Tail(labels))

\* the body of "for record in all_records"
AddRecord(g, record) ==
    LET owner == insert_path(g, root_id, get_labels(record.name))
    IN IF record.type = "DNAME"
       THEN LET target == insert_path(owner.g, root_id, get_labels(record.rdata))
                e == LGEdge(owner.node, target.node, "dname", "")
            IN IF e \in SeqToSet(target.g.edges) THEN target.g
               ELSE [target.g EXCEPT !.edges = Append(@, e)]
       ELSE owner.g

RECURSIVE AddRecords(_, _)
AddRecords(g, records) ==
    IF records = <<>> THEN g ELSE AddRecords(AddRecord(g, Head(records)), Tail(records))

\* the alpha child given to each node that exists after the records are in
RECURSIVE AddAlphaChildren(_, _, _)
AddAlphaChildren(g, node_id, last) ==
    IF node_id > last THEN g
    ELSE LET alpha_id == g.next_id
         IN AddAlphaChildren(
              [nodes |-> g.nodes @@ (alpha_id :> LGNode(alpha_id, "alpha", TRUE)),
               edges |-> Append(g.edges, LGEdge(node_id, alpha_id, "child", "alpha")),
               next_id |-> alpha_id + 1],
              node_id + 1, last)

construct_label_graph(all_records) ==
    LET g == AddRecords(EmptyLabelGraph, all_records)
        full == AddAlphaChildren(g, 0, g.next_id - 1)
    IN [nodes |-> full.nodes, edges |-> full.edges]

\* all_records: the records of the zones in zone-map order
AllRecords(cfg) == Concat([i \in 1..Len(cfg.zone_keys) |-> cfg.zone_map[cfg.zone_keys[i]].records])

-----------------------------------------------------------------------------
(* Groot_v1 step3: generate_equivalence_classes *)

SUPPORTED_QUERY_TYPES == <<"A", "AAAA", "NS", "MX", "TXT", "CNAME", "SOA">>

\* children_map.get(node, []): targets of the child edges, in edge order
children_ids(lg, node) ==
    LET es == SelectSeq(lg.edges, LAMBDA e : e.edge_type = "child" /\ e.source_id = node)
    IN [i \in 1..Len(es) |-> es[i].target_id]

\* dname_map: the last dname edge of a source wins
HasDname(lg, node) ==
    \E k \in 1..Len(lg.edges) : lg.edges[k].edge_type = "dname" /\ lg.edges[k].source_id = node

dname_map(lg, node) ==
    LET es == SelectSeq(lg.edges, LAMBDA e : e.edge_type = "dname" /\ e.source_id = node)
    IN es[Len(es)].target_id

\* the labels in use, ascending, for sorted(constraints)
LabelOrder == <<"*", "a", "al", "b", "c", "com", "d", "e", "f", "loop", "sub", "w", "www", "x", "zz">>

RECURSIVE Join(_, _)
Join(labels, sep) ==
    IF labels = <<>> THEN ""
    ELSE IF Len(labels) = 1 THEN labels[1]
    ELSE labels[1] \o sep \o Join(Tail(labels), sep)

\* a path element: a label string, or the dict {'label': 'alpha', 'constraints': [...]}
Segment(label) == [label |-> label, is_dict |-> FALSE, constraints |-> <<>>]

AlphaSegment(constraints) == [label |-> "alpha", is_dict |-> TRUE, constraints |-> constraints]

\* f"alpha_except_[{','.join(sorted(constraints))}]" or str(segment)
SegmentString(seg) ==
    IF seg.is_dict /\ seg.label = "alpha"
    THEN "alpha_except_[" \o Join(SortedBy(LabelOrder, seg.constraints), ",") \o "]"
    ELSE seg.label

domain_sequence_str(path) == [i \in 1..Len(path) |-> SegmentString(path[Len(path) + 1 - i])]

\* the seven ECs appended for one path
NewECs(path, counter) ==
    [i \in 1..Len(SUPPORTED_QUERY_TYPES) |->
        [ec_id |-> counter + i,
         domain_sequence |-> domain_sequence_str(path),
         query_types |-> <<SUPPORTED_QUERY_TYPES[i]>>]]

DfsState(node, path, history) == [node |-> node, path |-> path, history |-> history]

\* root_node_id: the first node whose label is '.' or ''
RootNode(lg) == Min({ n \in DOMAIN lg.nodes : lg.nodes[n].label \in {"", "."} })


\* node_history[current_node_id] = len(current_path); history is a function
\* on the nodes seen on this branch
SetHistory(h, node, len) == [n \in (DOMAIN h) \cup {node} |-> IF n = node THEN len ELSE h[n]]

EmptyHistory == [n \in {} |-> 0]

\* the stack of line 56: the root node, the path [root_label], an empty history
InitialStack(lg) ==
    << DfsState(RootNode(lg), <<Segment(lg.nodes[RootNode(lg)].label)>>, EmptyHistory) >>

\* variant: no loop guard
LoopGuardMissing(state) == FALSE

\* Type-2 loop guard of line 72
LoopGuard(state) ==
    state.node \in DOMAIN state.history /\ state.history[state.node] = Len(state.path)

MAX_DNS_LENGTH == 20

\* Type-1 length check of line 78
TooLong(path) == Len(path) > MAX_DNS_LENGTH

\* the states pushed for the children of the current node, then for its DNAME edge
ChildStates(lg, state, history) ==
    LET kids == SelectSeq(children_ids(lg, state.node), LAMBDA c : c \in DOMAIN lg.nodes)
        labels == [i \in 1..Len(kids) |-> lg.nodes[kids[i]].label]
        sibling_labels == SelectSeq(labels, LAMBDA l : l # "alpha")
    IN [i \in 1..Len(kids) |->
          DfsState(kids[i],
                   Append(state.path,
                          IF labels[i] = "alpha" THEN AlphaSegment(sibling_labels)
                          ELSE Segment(labels[i])),
                   history)]

DnameStates(lg, state, history) ==
    IF HasDname(lg, state.node) /\ dname_map(lg, state.node) \in DOMAIN lg.nodes
    THEN << DfsState(dname_map(lg, state.node), state.path, history) >>
    ELSE <<>>

\* One iteration of "while stack" on st = [stack, ec_list, ec_counter]
ECStep(lg, st) ==
    LET state == st.stack[Len(st.stack)]
        rest == SubSeq(st.stack, 1, Len(st.stack) - 1)
        history == SetHistory(state.history, state.node, Len(state.path))
    IN IF LoopGuard(state) THEN [st EXCEPT !.stack = rest]
       ELSE IF TooLong(state.path) THEN [st EXCEPT !.stack = rest]
       ELSE [stack |-> rest \o ChildStates(lg, state, history) \o DnameStates(lg, state, history),
             ec_list |-> st.ec_list \o NewECs(state.path, st.ec_counter),
             ec_counter |-> st.ec_counter + Len(SUPPORTED_QUERY_TYPES)]

\* get_domain_from_sequence: drop '' and '.', join with '.' and end with '.'
get_domain_from_sequence(sequence) == SelectSeq(sequence, LAMBDA l : l # "" /\ l # ".")

-----------------------------------------------------------------------------
(* Configurations and queries explored for step4 *)

COM == <<"com">>
SUBCOM == <<"sub", "com">>
ADDR == <<"1.1.1.1">>
SOADATA == <<"soa">>

\* one server, one zone: CNAME loop, self CNAME, DNAMEs, wildcard, dangling CNAME
ZoneLoops ==
    [origin |-> COM,
     records |-> << RR(COM, "SOA", SOADATA),
                    RR(COM, "NS", NS1),
                    RR(<<"a", "com">>, "CNAME", <<"b", "com">>),
                    RR(<<"b", "com">>, "CNAME", <<"a", "com">>),
                    RR(<<"c", "com">>, "CNAME", <<"c", "com">>),
                    RR(<<"d", "com">>, "DNAME", <<"x", "d", "com">>),
                    RR(<<"e", "com">>, "DNAME", <<"e", "com">>),
                    RR(<<"w", "com">>, "A", ADDR),
                    RR(<<"*", "w", "com">>, "A", ADDR),
                    RR(<<"f", "com">>, "CNAME", <<"g", "com">>) >>]

ConfigLoops ==
    [Theta |-> <<NS1>>,
     Gamma |-> (NS1 :> <<COM>>),
     zone_map |-> (COM :> ZoneLoops),
     zone_keys |-> <<COM>>]

\* two roots, a delegation to ns3 (authoritative) and ns4 (hosts nothing),
\* a referral from the child back to the parent's server
ZoneParent ==
    [origin |-> COM,
     records |-> << RR(COM, "SOA", SOADATA),
                    RR(COM, "NS", NS2),
                    RR(COM, "NS", NS1),
                    RR(SUBCOM, "NS", NS4),
                    RR(SUBCOM, "NS", NS3),
                    RR(<<"www", "com">>, "A", ADDR) >>]

ZoneChild ==
    [origin |-> SUBCOM,
     records |-> << RR(SUBCOM, "SOA", SOADATA),
                    RR(SUBCOM, "NS", NS3),
                    RR(<<"www", "sub", "com">>, "A", ADDR),
                    RR(<<"loop", "sub", "com">>, "NS", NS1),
                    RR(<<"al", "sub", "com">>, "CNAME", <<"www", "com">>) >>]

ConfigDeleg ==
    [Theta |-> <<NS1, NS2>>,
     Gamma |-> (NS1 :> <<COM>>) @@ (NS2 :> <<COM>>) @@ (NS3 :> <<SUBCOM, COM>>),
     zone_map |-> (COM :> ZoneParent) @@ (SUBCOM :> ZoneChild),
     zone_keys |-> <<COM, SUBCOM>>]

QueriesLoops ==
    { COM, <<"a", "com">>, <<"c", "com">>, <<"y", "d", "com">>, <<"y", "e", "com">>,
      <<"z", "w", "com">>, <<"f", "com">>, <<"q", "com">>, <<"org">> }

QueriesDeleg ==
    { <<"www", "sub", "com">>, <<"loop", "sub", "com">>, <<"al", "sub", "com">>,
      SUBCOM, <<"www", "com">> }

TypeLists == { <<"A">>, <<"NS">>, <<"A", "CNAME">> }

IGInputs ==
    { [cfg |-> ConfigLoops, query |-> q, types |-> ts] : q \in QueriesLoops, ts \in TypeLists }
    \cup
    { [cfg |-> ConfigDeleg, query |-> q, types |-> ts] : q \in QueriesDeleg, ts \in TypeLists }

-----------------------------------------------------------------------------
(* Specification of the step4 worklist *)

\* the other components are not running
\* the Groot_v1 configuration of a run that only exercises the raw API
NoDnsConfig == [Theta |-> <<>>, Gamma |-> <<>>, zone_map |-> <<>>, zone_keys |-> <<>>]

IdleIG ==
    /\ ec = [query |-> Root, types |-> <<>>]
    /\ graph_nodes = <<>>
    /\ graph_edges = <<>>
    /\ visited_states = {}
    /\ worklist = <<>>
    /\ node_depth = <<>>
    /\ last_pop = "none"

IdleEC ==
    /\ label_graph = [nodes |-> <<>>, edges |-> <<>>]
    /\ stack = <<>>
    /\ ec_list = <<>>
    /\ ec_counter = 0
    /\ last_dfs = [fate |-> "none"]

\* the raw API components before they are used
IdleResolve ==
    /\ config = [top_name_servers |-> {}, top_order |-> <<>>, zones_by_ns |-> <<>>]
    /\ ec_query = [domain |-> <<>>, type |-> "None"]
    /\ bl_nodes = <<>>
    /\ bl_edges = <<>>
    /\ entry_points = <<>>
    /\ bl_q = <<>>
    /\ bl_visited = {}
    /\ last_resolve = [kind |-> "none"]

IdlePaths ==
    /\ gp_pc = "idle"
    /\ entry_idx = 0
    /\ path_q = <<>>
    /\ paths = <<>>
    /\ gp_steps = 0

IdleLG ==
    /\ bl_lg = [nodes |-> {}, is_record_leaf |-> {}, dname_target |-> <<>>]
    /\ call_stack = <<>>
    /\ ecs = <<>>
    /\ lg_status = "idle"

IdleBaseline == IdleResolve /\ IdlePaths /\ IdleLG

IdleFn ==
    /\ fn_args = [fn |-> "none"]
    /\ fn_result = <<>>
    /\ fn_pc = "idle"

InitIG ==
    \E inp \in IGInputs :
        /\ dns_config = inp.cfg
        /\ ec = [query |-> inp.query, types |-> inp.types]
        /\ graph_nodes = <<>>
        /\ graph_edges = <<>>
        /\ visited_states = {}
        /\ worklist = InitialWorklist(inp.cfg, [query |-> inp.query, types |-> inp.types])
        /\ node_depth = <<>>
        /\ last_pop = "none"
        /\ IdleEC
        /\ IdleBaseline
        /\ IdleFn

ApplyIGStep(kind) ==
    LET st == IGStep(dns_config, IGState)
        w == Head(worklist)
    IN /\ graph_nodes' = st.nodes
       /\ graph_edges' = st.edges
       /\ visited_states' = st.visited
       /\ worklist' = st.worklist
       /\ node_depth' = IF Len(st.nodes) > Len(graph_nodes)
                        THEN Append(node_depth,
                                    IF w.parent_id = NoParent THEN 0
                                    ELSE node_depth[w.parent_id] + 1)
                        ELSE node_depth
       /\ last_pop' = kind
       /\ UNCHANGED <<dns_config, ec, ecVars, resolveVars, pathVars, lgVars, fnVars>>

\* the popped state_key is in visited_states
PopRevisit ==
    /\ worklist # <<>>
    /\ IsVisited(visited_states, StateKey(Head(worklist)))
    /\ ApplyIGStep("revisit")

\* new node, no authoritative zone on the server
PopRefused ==
    /\ worklist # <<>>
    /\ Len(graph_nodes) < MaxNodes
    /\ ~IsVisited(visited_states, StateKey(Head(worklist)))
    /\ find_authoritative_zone(Head(worklist).server, Head(worklist).query, dns_config) = NoZone
    /\ ApplyIGStep("refused")

\* new node, symbolic lookup, successors appended
PopLookup ==
    /\ worklist # <<>>
    /\ Len(graph_nodes) < MaxNodes
    /\ ~IsVisited(visited_states, StateKey(Head(worklist)))
    /\ find_authoritative_zone(Head(worklist).server, Head(worklist).query, dns_config) # NoZone
    /\ ApplyIGStep("lookup")

NextIG == PopRevisit \/ PopRefused \/ PopLookup

SpecIG == InitIG /\ [][NextIG]_vars

-----------------------------------------------------------------------------
(* Properties of the step4 interpretation graph *)

NodeIds == 1..Len(graph_nodes)

NodeKey(n) == <<n.nameserver, n.current_query, SeqToSet(n.query_type_bitmap)>>

\* C3: cycle safety with fuel -- no state is resolved more than the fuel (15)
\* edges away from an entry state, so every branch stops and the worklist
\* empties.
C3_FuelBoundsDepth == \A i \in NodeIds : node_depth[i] <= Fuel

\* C7: node keys are unique -- no two nodes of the graph have the same
\* (server, query name, set of query types), and popping a state whose key is
\* already resolved creates no node, appends nothing to the worklist and adds
\* at most one edge, which ends at the existing node.
UniqueNodeKeys ==
    \A i, j \in NodeIds : NodeKey(graph_nodes[i]) = NodeKey(graph_nodes[j]) => i = j

RevisitAddsOnlyAnEdge ==
    (worklist # <<>> /\ (\E i \in NodeIds : NodeKey(graph_nodes[i]) = StateKey(Head(worklist))))
    => /\ graph_nodes' = graph_nodes
       /\ worklist' = Tail(worklist)
       /\ \/ graph_edges' = graph_edges
          \/ \E i \in NodeIds :
               /\ NodeKey(graph_nodes[i]) = StateKey(Head(worklist))
               /\ graph_edges' = Append(graph_edges,
                                        [source_id |-> Head(worklist).parent_id,
                                         target_id |-> i,
                                         action |-> Head(worklist).edge_action])

C7_NodeKeysUnique == [](UniqueNodeKeys) /\ [][RevisitAddsOnlyAnEdge]_vars

\* a revisit has happened: a second edge into a node that already had one
C7_Witness ==
    /\ last_pop = "revisit"
    /\ \E i, j \in 1..Len(graph_edges) :
         i # j /\ graph_edges[i].target_id = graph_edges[j].target_id

\* C8: every node is reachable, along the edges, from an entry node (a node
\* created from the initial worklist: root server, the EC's name and types).
EntryNodes ==
    { i \in NodeIds : /\ node_depth[i] = 0
                      /\ graph_nodes[i].nameserver \in SeqToSet(dns_config.Theta)
                      /\ graph_nodes[i].current_query = ec.query
                      /\ graph_nodes[i].query_type_bitmap = ec.types }

RECURSIVE ReachableFrom(_)
ReachableFrom(S) ==
    LET next == S \cup { graph_edges[k].target_id :
                           k \in { m \in 1..Len(graph_edges) : graph_edges[m].source_id \in S } }
    IN IF next = S THEN S ELSE ReachableFrom(next)

C8_NodesReachable == NodeIds \subseteq ReachableFrom(EntryNodes)

\* a finished graph with a node two edges away from its entry
C8_Witness ==
    /\ worklist = <<>>
    /\ \E i \in NodeIds : node_depth[i] >= 2

\* C9: a rewrite edge joins nodes with different query names, a referral edge
\* joins nodes with the same query name.
C9_EdgeNames ==
    \A k \in 1..Len(graph_edges) :
        LET e == graph_edges[k]
            from == graph_nodes[e.source_id].current_query
            to == graph_nodes[e.target_id].current_query
        IN /\ e.action = "rewrite" => from # to
           /\ e.action = "referral" => from = to

-----------------------------------------------------------------------------
(* Specification of the step3 depth-first search *)

\* a DNAME whose target owns a name the DNAME owner does not
ZoneDname ==
    [origin |-> COM,
     records |-> << RR(COM, "SOA", SOADATA),
                    RR(COM, "NS", NS1),
                    RR(<<"a", "com">>, "DNAME", <<"b", "com">>),
                    RR(<<"www", "b", "com">>, "A", ADDR) >>]

\* DNAME edges a -> b -> a between two nodes of the same depth
ZoneCycle ==
    [origin |-> COM,
     records |-> << RR(COM, "SOA", SOADATA),
                    RR(COM, "NS", NS1),
                    RR(<<"a", "com">>, "DNAME", <<"b", "com">>),
                    RR(<<"b", "com">>, "DNAME", <<"a", "com">>),
                    RR(<<"c", "b", "com">>, "A", ADDR) >>]

\* a DNAME edge from a descendant back to its ancestor
ZoneGrow ==
    [origin |-> COM,
     records |-> << RR(COM, "SOA", SOADATA),
                    RR(COM, "NS", NS1),
                    RR(<<"x", "a", "com">>, "DNAME", <<"a", "com">>) >>]

\* an owner name with the literal label 'alpha'
ZoneAlpha ==
    [origin |-> COM,
     records |-> << RR(COM, "SOA", SOADATA),
                    RR(<<"www", "alpha", "com">>, "A", ADDR) >>]

OneZoneConfig(zone) ==
    [Theta |-> <<NS1>>,
     Gamma |-> (NS1 :> <<zone.origin>>),
     zone_map |-> (zone.origin :> zone),
     zone_keys |-> <<zone.origin>>]

ECConfigs ==
    { OneZoneConfig(ZoneDname), OneZoneConfig(ZoneCycle), OneZoneConfig(ZoneGrow),
      OneZoneConfig(ZoneAlpha), ConfigLoops, ConfigDeleg }

InitEC ==
    \E cfg \in ECConfigs :
        /\ dns_config = cfg
        /\ label_graph = construct_label_graph(AllRecords(cfg))
        /\ stack = InitialStack(construct_label_graph(AllRecords(cfg)))
        /\ ec_list = <<>>
        /\ ec_counter = 0
        /\ last_dfs = [fate |-> "none"]
        /\ IdleIG
        /\ IdleBaseline
        /\ IdleFn

ECState == [stack |-> stack, ec_list |-> ec_list, ec_counter |-> ec_counter]

ApplyECStep(fate) ==
    LET st == ECStep(label_graph, ECState)
        state == stack[Len(stack)]
    IN /\ stack' = st.stack
       /\ ec_list' = st.ec_list
       /\ ec_counter' = st.ec_counter
       /\ last_dfs' = [fate |-> fate, node |-> state.node, len |-> Len(state.path),
                       history |-> state.history]
       /\ UNCHANGED <<label_graph, igVars, resolveVars, pathVars, lgVars, fnVars>>

\* the popped node was already visited with this path length on the branch
DfsLoopGuard ==
    /\ stack # <<>>
    /\ LoopGuard(stack[Len(stack)])
    /\ ApplyECStep("loop")

\* the popped path exceeds MAX_DNS_LENGTH
DfsTooLong ==
    /\ stack # <<>>
    /\ ~LoopGuard(stack[Len(stack)])
    /\ TooLong(stack[Len(stack)].path)
    /\ ApplyECStep("long")

\* ECs are emitted, children and the DNAME target are pushed
DfsVisit ==
    /\ stack # <<>>
    /\ ~LoopGuard(stack[Len(stack)])
    /\ ~TooLong(stack[Len(stack)].path)
    /\ ApplyECStep("visit")

NextEC == DfsLoopGuard \/ DfsTooLong \/ DfsVisit

SpecEC == InitEC /\ [][NextEC]_vars

\* step3 is a sequential loop: an iteration that can run does run
FairSpecEC == SpecEC /\ WF_vars(NextEC)

-----------------------------------------------------------------------------
(* Properties of the step3 search *)

StackTop == stack[Len(stack)]

\* C4: the DFS terminates on DNAME cycles -- the stack empties, and a popped
\* state whose node was already visited with the same path length on its
\* branch is dropped: nothing is emitted and nothing is pushed.
LoopStateDropped ==
    (/\ stack # <<>>
     /\ StackTop.node \in DOMAIN StackTop.history
     /\ StackTop.history[StackTop.node] = Len(StackTop.path))
    => /\ stack' = SubSeq(stack, 1, Len(stack) - 1)
       /\ ec_list' = ec_list

C4_DfsTerminates == <>(stack = <<>>) /\ [][LoopStateDropped]_vars

\* a state was just dropped by the loop guard, after ECs were emitted
C4_Witness ==
    /\ last_dfs.fate = "loop"
    /\ last_dfs.history[last_dfs.node] = last_dfs.len
    /\ ec_list # <<>>

\* the whole worklist loop of step4 for one query, cut off after n iterations
RECURSIVE RunIG(_, _, _)
RunIG(cfg, st, n) ==
    IF st.worklist = <<>> \/ n = 0 THEN st ELSE RunIG(cfg, IGStep(cfg, st), n - 1)

\* the servers visited and the outcome tags found there, in resolution order
ResolutionTrace(cfg, query, types) ==
    LET st == RunIG(cfg, [nodes |-> <<>>, edges |-> <<>>, visited |-> {},
                          worklist |-> InitialWorklist(cfg, [query |-> query, types |-> types])],
                    MaxIGSteps)
    IN [i \in 1..Len(st.nodes) |-> <<st.nodes[i].nameserver, st.nodes[i].tags>>]

\* the sibling sets that alpha constraints are taken from
SiblingSets ==
    { SeqToSet(SelectSeq([i \in 1..Len(children_ids(label_graph, n)) |->
                             label_graph.nodes[children_ids(label_graph, n)[i]].label],
                         LAMBDA l : l # "alpha")) : n \in DOMAIN label_graph.nodes }

AlphaString(C) ==
    "alpha_except_[" \o Join(SelectSeq(LabelOrder, LAMBDA l : l \in C), ",") \o "]"

ECQuery(e) == get_domain_from_sequence(e.domain_sequence)

IsAlphaEC(e) ==
    /\ ECQuery(e) # <<>>
    /\ \E C \in SiblingSets : ECQuery(e)[1] = AlphaString(C)

\* concrete labels tried in the place of alpha
MemberLabels == {"www", "c", "zz"}

\* the concrete names of an EC: the name itself, or for an alpha EC the names
\* with a leftmost label outside the excluded sibling set
ECMembers(e) ==
    IF IsAlphaEC(e)
    THEN LET C == CHOOSE D \in SiblingSets : ECQuery(e)[1] = AlphaString(D)
         IN { <<l>> \o Tail(ECQuery(e)) : l \in MemberLabels \ C }
    ELSE { ECQuery(e) }

\* C1: EC soundness -- every concrete name of an emitted EC is resolved through
\* the same servers with the same outcome tags as the EC's own domain.
C1_ECSound ==
    \A i \in 1..Len(ec_list) :
        \A m \in ECMembers(ec_list[i]) :
            ResolutionTrace(dns_config, m, ec_list[i].query_types)
              = ResolutionTrace(dns_config, ECQuery(ec_list[i]), ec_list[i].query_types)

-----------------------------------------------------------------------------
(* raw API (run_baseline.py): data model.                                   *)
(* A DomainName is its labels list, which is in root-first order:           *)
(* DomainName("www.a.com.").labels is <<"com","a","www">>.                  *)

\* DomainName.__str__
str(domain) == IF domain = <<>> THEN "." ELSE Join(Reverse(domain), ".") \o "."

\* DomainName.is_wildcard
is_wildcard(domain) == domain # <<>> /\ domain[Len(domain)] = "*"

\* self.is_prefix(other): other is a prefix of self
is_prefix(self, other) ==
    IF Len(self) < Len(other) THEN FALSE
    ELSE SubSeq(self, 1, Len(other)) = other

\* self.substitute(old_prefix, new_prefix)
substitute(self, old_prefix, new_prefix) ==
    IF ~is_prefix(self, old_prefix) THEN self
    ELSE new_prefix \o SubSeq(self, Len(old_prefix) + 1, Len(self))

\* DomainName(str(r_domain)[2:]) for a wildcard name: the name without "*."
WildcardBase(r_domain) == SubSeq(r_domain, 1, Len(r_domain) - 1)

ResourceRecord(domain, type, value) == [domain |-> domain, type |-> type, value |-> value]

\* what _get_soa returns when the zone has no SOA record
NoneRecord == ResourceRecord(<<>>, "None", <<>>)

Query(domain, q_type) == [domain |-> domain, type |-> q_type]

NoneQuery == Query(<<>>, "None")

\* Query.__repr__
repr(query) == "Query(" \o str(query.domain) \o ", " \o query.type \o ")"

\* DNSAnswer(tag, data): data is a record set, or (record set, query) for AnsQ
DNSAnswer(tag, records, rewritten_query) ==
    [tag |-> tag, records |-> records, rewritten_query |-> rewritten_query]

Zone(domain, records) == [domain |-> domain, records |-> records]

\* zones_by_ns.get(ns_domain, set())
ZonesOf(cfg, ns_domain) ==
    IF ns_domain \in DOMAIN cfg.zones_by_ns THEN cfg.zones_by_ns[ns_domain] ELSE {}

\* address_records.get(domain, set()): the A/AAAA records of all zones
address_records(cfg, domain) ==
    { r \in UNION { z.records : z \in UNION { cfg.zones_by_ns[s] : s \in DOMAIN cfg.zones_by_ns } } :
        r.type \in {"A", "AAAA"} /\ r.domain = domain }

-----------------------------------------------------------------------------
(* raw API: Resolver lookups.  A lookup that iterates a Python set is a set *)
(* of possible answers, one for each element the iteration may yield first. *)

\* Resolver._rank
rank(record, query, zone_domain) ==
    LET q_domain == query.domain
        r_domain == record.domain
        is_match == \/ r_domain = q_domain
                    \/ (is_wildcard(r_domain) /\ is_prefix(q_domain, WildcardBase(r_domain)))
                    \/ is_prefix(r_domain, q_domain)
        is_zone_cut == record.type = "NS" /\ r_domain # zone_domain
        match_len == IF is_prefix(r_domain, q_domain) THEN Len(r_domain) ELSE 0
    IN << IF is_match THEN 1 ELSE 0,
          IF is_zone_cut THEN 1 ELSE 0,
          match_len,
          IF is_wildcard(r_domain) THEN 0 ELSE 1 >>

\* tuple comparison a < b
RankLess(a, b) ==
    \E i \in 1..4 : a[i] < b[i] /\ \A j \in 1..(i - 1) : a[j] = b[j]

\* Resolver._get_soa: the SOA record the iteration meets first, or None
get_soa(zone) ==
    IF \E r \in zone.records : r.type = "SOA"
    THEN { r \in zone.records : r.type = "SOA" }
    ELSE { NoneRecord }

\* Resolver._delegation
delegation(cfg, records, zone) ==
    LET ns_records == { r \in records : r.type = "NS" }
        glue_records == UNION { address_records(cfg, r.value) :
                                  r \in { n \in ns_records : is_prefix(n.value, zone.domain) } }
    IN DNSAnswer("Ref", ns_records \cup glue_records, NoneQuery)

NXAnswers(zone) == { DNSAnswer("NX", {soa}, NoneQuery) : soa \in get_soa(zone) }

\* the answers of "if q_type in record_types ... if CNAME in record_types"
CnameAnswers(records, q_type) ==
    { DNSAnswer("AnsQ", {c}, Query(c.value, q_type)) : c \in { r \in records : r.type = "CNAME" } }

\* Resolver._rr_lookup when next(iter(records)) is the record first
rr_lookup_from(cfg, first, records, query, zone) ==
    LET r_domain == first.domain
        q_domain == query.domain
        q_type == query.type
        record_types == { r.type : r \in records }
        wildcard == /\ is_wildcard(r_domain)
                    /\ is_prefix(q_domain, WildcardBase(r_domain))
                    /\ ~\E r \in zone.records : r.domain = q_domain
    IN IF r_domain = q_domain
       THEN IF q_type \in record_types
            THEN { DNSAnswer("Ans", { r \in records : r.type = q_type }, NoneQuery) }
            ELSE IF "CNAME" \in record_types THEN CnameAnswers(records, q_type)
            ELSE IF "NS" \in record_types /\ r_domain # zone.domain
            THEN { delegation(cfg, records, zone) }
            ELSE { DNSAnswer("Ans", {soa}, NoneQuery) : soa \in get_soa(zone) }
       ELSE IF wildcard /\ q_type \in record_types
       THEN { DNSAnswer("Ans", records, NoneQuery) }
       ELSE IF wildcard /\ "CNAME" \in record_types THEN CnameAnswers(records, q_type)
       ELSE IF "DNAME" \in record_types /\ is_prefix(r_domain, q_domain)
       THEN { DNSAnswer("AnsQ", {d}, Query(substitute(q_domain, r_domain, d.value), q_type)) :
                d \in { r \in records : r.type = "DNAME" } }
       ELSE IF "NS" \in record_types /\ is_prefix(r_domain, q_domain)
       THEN { delegation(cfg, records, zone) }
       ELSE NXAnswers(zone)

\* Resolver._rr_lookup
rr_lookup(cfg, records, query, zone) ==
    IF records = {} THEN NXAnswers(zone)
    ELSE UNION { rr_lookup_from(cfg, first, records, query, zone) : first \in records }

\* best_records = {r for r, rank in ranks.items() if rank == max_rank}
best_records(zone, query) ==
    { r \in zone.records :
        ~\E o \in zone.records :
             RankLess(rank(r, query, zone.domain), rank(o, query, zone.domain)) }

\* Resolver._zone_lookup
zone_lookup(cfg, zone, query) ==
    IF zone.records = {} THEN NXAnswers(zone)
    ELSE rr_lookup(cfg, best_records(zone, query), query, zone)

\* Resolver._server_lookup
server_lookup(cfg, ns_domain, query) ==
    LET zones == ZonesOf(cfg, ns_domain)
        matching == { z \in zones : is_prefix(query.domain, z.domain) }
        best_zones == { z \in matching : \A o \in matching : Len(o.domain) <= Len(z.domain) }
    IN IF zones = {} \/ best_zones = {}
       THEN { DNSAnswer("Refused", {}, NoneQuery) }
       ELSE UNION { zone_lookup(cfg, z, query) : z \in best_zones }

-----------------------------------------------------------------------------
(* raw API: Resolver.resolve *)

\* the from_ns and from_q of the initial items
NoneNS == <<"<None>">>

\* "if from_ns:" -- None is false, and so is a DomainName without labels
Truthy(from_ns) == from_ns # NoneNS /\ Len(from_ns) > 0

Item(from_ns, from_q, ns_domain, current_q, depth) ==
    [from_ns |-> from_ns, from_q |-> from_q, ns_domain |-> ns_domain,
     current_q |-> current_q, depth |-> depth]

\* the key of a graph node: (ns, repr(query))
Key(ns, query) == <<ns, repr(query)>>

HasNode(ns_list, key) == \E i \in 1..Len(ns_list) : ns_list[i].key = key

\* InterpretationGraph.add_node
add_node(ns_list, ns, query, answer, depth) ==
    IF HasNode(ns_list, Key(ns, query)) THEN ns_list
    ELSE Append(ns_list, [key |-> Key(ns, query), ns |-> ns, query |-> query,
                          answer |-> answer, depth |-> depth, is_sink |-> TRUE])

\* InterpretationGraph.add_edge: its effect on the nodes, and on the edges
add_edge_nodes(ns_list, from_ns, from_query) ==
    [i \in 1..Len(ns_list) |->
        IF ns_list[i].key = Key(from_ns, from_query)
        THEN [ns_list[i] EXCEPT !.is_sink = FALSE] ELSE ns_list[i]]

add_edge_edges(es, from_ns, from_query, to_ns, to_query, edge_type) ==
    Append(es, [from |-> Key(from_ns, from_query), to |-> Key(to_ns, to_query),
                type |-> edge_type])

\* the orders in which a set may be iterated
Orderings(S) ==
    { f \in [1..Cardinality(S) -> S] : \A i, j \in 1..Cardinality(S) : f[i] = f[j] => i = j }

\* a depth at which resolve gives up; the mutant gives up two levels late
DepthExceededLate(depth) == depth >= MAX_RESOLUTION_DEPTH + 2

DepthExceeded(depth) == depth >= MAX_RESOLUTION_DEPTH

\* is_local of lines 513-518; the mutant never finds the server authoritative
IsLocalNever(cfg, ns_domain, rewritten_q) == FALSE

IsLocal(cfg, ns_domain, rewritten_q) ==
    \E zone \in ZonesOf(cfg, ns_domain) : is_prefix(rewritten_q.domain, zone.domain)

\* the items appended for an AnsQ answer
AnsQItems(cfg, ns_domain, current_q, answer, depth) ==
    LET rewritten_q == answer.rewritten_query
    IN IF IsLocal(cfg, ns_domain, rewritten_q)
       THEN << Item(ns_domain, current_q, ns_domain, rewritten_q, depth + 1) >>
       ELSE [i \in 1..Len(cfg.top_order) |->
               Item(ns_domain, current_q, cfg.top_order[i], rewritten_q, depth + 1)]

\* the items appended for a Ref answer, the records being iterated in order ord
RefItems(ns_domain, current_q, ord, depth) ==
    LET ns_recs == SelectSeq(ord, LAMBDA r : r.type = "NS")
    IN [i \in 1..Len(ns_recs) |->
          Item(ns_domain, current_q, ns_recs[i].value, current_q, depth + 1)]

\* the possible successor lists of an answer
SuccessorItems(cfg, ns_domain, current_q, answer, depth) ==
    IF answer.tag = "AnsQ" THEN { AnsQItems(cfg, ns_domain, current_q, answer, depth) }
    ELSE IF answer.tag = "Ref"
    THEN { RefItems(ns_domain, current_q, ord, depth) : ord \in Orderings(answer.records) }
    ELSE { <<>> }

\* the node and edge added for a popped item
NodesAfter(item, answer) ==
    LET added == add_node(bl_nodes, item.ns_domain, item.current_q, answer, item.depth)
    IN IF Truthy(item.from_ns) THEN add_edge_nodes(added, item.from_ns, item.from_q) ELSE added

EdgesAfter(item, edge_type) ==
    IF Truthy(item.from_ns)
    THEN add_edge_edges(bl_edges, item.from_ns, item.from_q, item.ns_domain, item.current_q, edge_type)
    ELSE bl_edges

VisitedState(item) == <<item.ns_domain, repr(item.current_q), item.depth>>

\* "if state in visited: continue"
ResolveVisited ==
    /\ bl_q # <<>>
    /\ VisitedState(Head(bl_q)) \in bl_visited
    /\ bl_q' = Tail(bl_q)
    /\ last_resolve' = [kind |-> "visited", item |-> Head(bl_q),
                        answer |-> DNSAnswer("None", {}, NoneQuery), enqueued |-> <<>>]
    /\ UNCHANGED <<config, ec_query, bl_nodes, bl_edges, entry_points, bl_visited>>
    /\ UNCHANGED <<igVars, ecVars, pathVars, lgVars, fnVars>>

\* "if depth >= MAX_RESOLUTION_DEPTH": a ServFail node and a Timeout edge
ResolveTimeout ==
    /\ bl_q # <<>>
    /\ VisitedState(Head(bl_q)) \notin bl_visited
    /\ DepthExceeded(Head(bl_q).depth)
    /\ LET item == Head(bl_q)
           answer == DNSAnswer("ServFail", {}, NoneQuery)
       IN /\ bl_visited' = bl_visited \cup { VisitedState(item) }
          /\ bl_nodes' = NodesAfter(item, answer)
          /\ bl_edges' = EdgesAfter(item, "Timeout")
          /\ bl_q' = Tail(bl_q)
          /\ last_resolve' = [kind |-> "timeout", item |-> item, answer |-> answer,
                              enqueued |-> <<>>]
    /\ UNCHANGED <<config, ec_query, entry_points>>
    /\ UNCHANGED <<igVars, ecVars, pathVars, lgVars, fnVars>>

\* the rest of the loop body: the lookup, the node, the edge and the successors
ResolveLookup ==
    /\ bl_q # <<>>
    /\ VisitedState(Head(bl_q)) \notin bl_visited
    /\ ~DepthExceeded(Head(bl_q).depth)
    /\ LET item == Head(bl_q)
       IN \E answer \in server_lookup(config, item.ns_domain, item.current_q) :
          \E items \in SuccessorItems(config, item.ns_domain, item.current_q, answer, item.depth) :
             /\ bl_visited' = bl_visited \cup { VisitedState(item) }
             /\ bl_nodes' = NodesAfter(item, answer)
             /\ bl_edges' = EdgesAfter(item, "Referral")
             /\ bl_q' = Tail(bl_q) \o items
             /\ last_resolve' = [kind |-> "lookup", item |-> item, answer |-> answer,
                                 enqueued |-> items]
    /\ UNCHANGED <<config, ec_query, entry_points>>
    /\ UNCHANGED <<igVars, ecVars, pathVars, lgVars, fnVars>>

NextResolve == ResolveVisited \/ ResolveTimeout \/ ResolveLookup

-----------------------------------------------------------------------------
(* raw API: InterpretationGraph.get_paths, called on the graph resolve returns *)

\* the number of paths get_paths may pop in the model
MaxPathSteps == 12

\* self.nodes[key]
NodeOf(key) == bl_nodes[CHOOSE i \in 1..Len(bl_nodes) : bl_nodes[i].key = key]

\* [edge['to'] for edge in self.edges if edge['from'] == last_node_key]
Children(last_node_key) ==
    LET es == SelectSeq(bl_edges, LAMBDA e : e.from = last_node_key)
    IN [i \in 1..Len(es) |-> es[i].to]

GetPathsCall ==
    /\ bl_q = <<>>
    /\ gp_pc = "idle"
    /\ gp_pc' = "running"
    /\ UNCHANGED <<entry_idx, path_q, paths, gp_steps>>
    /\ UNCHANGED <<igVars, ecVars, resolveVars, lgVars, fnVars>>

\* the next round of "for entry_ns, entry_query_repr in self.entry_points"
GetPathsNextEntry ==
    /\ gp_pc = "running"
    /\ path_q = <<>>
    /\ entry_idx < Len(entry_points)
    /\ entry_idx' = entry_idx + 1
    /\ path_q' = << <<entry_points[entry_idx + 1]>> >>
    /\ UNCHANGED <<gp_pc, paths, gp_steps>>
    /\ UNCHANGED <<igVars, ecVars, resolveVars, lgVars, fnVars>>

\* a popped path whose last node has no outgoing edge is finished
GetPathsLeaf ==
    /\ gp_pc = "running"
    /\ path_q # <<>>
    /\ gp_steps < MaxPathSteps
    /\ LET path == Head(path_q)
       IN /\ Children(path[Len(path)]) = <<>>
          /\ paths' = Append(paths, [i \in 1..Len(path) |-> NodeOf(path[i])])
    /\ path_q' = Tail(path_q)
    /\ gp_steps' = gp_steps + 1
    /\ UNCHANGED <<gp_pc, entry_idx>>
    /\ UNCHANGED <<igVars, ecVars, resolveVars, lgVars, fnVars>>

\* otherwise the path is extended by each child
GetPathsExtend ==
    /\ gp_pc = "running"
    /\ path_q # <<>>
    /\ gp_steps < MaxPathSteps
    /\ LET path == Head(path_q)
           children == Children(path[Len(path)])
       IN /\ children # <<>>
          /\ path_q' = Tail(path_q) \o [i \in 1..Len(children) |-> Append(path, children[i])]
    /\ gp_steps' = gp_steps + 1
    /\ UNCHANGED <<gp_pc, entry_idx, paths>>
    /\ UNCHANGED <<igVars, ecVars, resolveVars, lgVars, fnVars>>

GetPathsReturn ==
    /\ gp_pc = "running"
    /\ path_q = <<>>
    /\ entry_idx = Len(entry_points)
    /\ gp_pc' = "done"
    /\ UNCHANGED <<entry_idx, path_q, paths, gp_steps>>
    /\ UNCHANGED <<igVars, ecVars, resolveVars, lgVars, fnVars>>

NextGetPaths ==
    GetPathsCall \/ GetPathsNextEntry \/ GetPathsLeaf \/ GetPathsExtend \/ GetPathsReturn

-----------------------------------------------------------------------------
(* raw API: LabelGraph.  A trie node is named by its path from the root, so *)
(* the graph is the set of its nodes, the set of record leaves and the      *)
(* dname_target of the nodes that have one.                                 *)

\* the Python recursion limit, scaled down
MaxCallDepth == 8

ALPHA_SYMBOL == "~{ }"

EmptyTrie == [nodes |-> { <<>> }, is_record_leaf |-> {}, dname_target |-> <<>>]

\* LabelGraph.add_domain
add_domain(g, domain, is_dname, dname_target) ==
    [nodes |-> g.nodes \cup { SubSeq(domain, 1, k) : k \in 0..Len(domain) },
     is_record_leaf |-> g.is_record_leaf \cup { domain },
     dname_target |-> IF is_dname
                      THEN [n \in (DOMAIN g.dname_target) \cup { domain } |->
                              IF n = domain THEN dname_target ELSE g.dname_target[n]]
                      ELSE g.dname_target]

\* main(): "for zone in all_zones: for record in zone.records: add_domain(...)"
RECURSIVE AddDomainsSeq(_, _)
AddDomainsSeq(g, records) ==
    IF records = <<>> THEN g
    ELSE AddDomainsSeq(add_domain(g, Head(records).domain, Head(records).type = "DNAME",
                                  Head(records).value),
                       Tail(records))

RECURSIVE AddDomains(_, _)
AddDomains(g, records) ==
    IF records = {} THEN g
    ELSE LET r == CHOOSE x \in records : TRUE
         IN AddDomains(add_domain(g, r.domain, r.type = "DNAME", r.value), records \ {r})

all_zones(cfg) == UNION { cfg.zones_by_ns[s] : s \in DOMAIN cfg.zones_by_ns }

\* the graphs main() may build: the records are iterated in set order, which
\* only decides whose target stays when a node owns several DNAME records
LabelGraphs(cfg) ==
    LET records == UNION { z.records : z \in all_zones(cfg) }
        dnames == { r \in records : r.type = "DNAME" }
    IN { AddDomainsSeq(AddDomains(EmptyTrie, records \ dnames), ord) : ord \in Orderings(dnames) }

\* node.children.keys()
children_labels(g, node) ==
    { n[Len(n)] : n \in { m \in g.nodes : Len(m) = Len(node) + 1 /\ is_prefix(m, node) } }

q_types == {"A", "AAAA", "MX", "TXT", "CNAME", "NS", "SOA", "DNAME"}

\* the queries appended by one "for q_type in q_types" loop, in set order
ECGroup(domain) == [domain |-> domain, types |-> q_types]

\* DomainName(".".join(reversed(path_labels)) + ".")
current_domain(path_labels) == path_labels

\* DomainName(f"{ALPHA_SYMBOL}.{current_domain}"): below the root the string is
\* "~{ }..", which parses to an empty label under the alpha label
alpha_domain(path_labels) ==
    IF path_labels = <<>> THEN <<"", ALPHA_SYMBOL>> ELSE Append(path_labels, ALPHA_SYMBOL)

NoneContext == <<"<None>">>

Frame(node, path_labels, dname_context, pc, todo) ==
    [node |-> node, path_labels |-> path_labels, dname_context |-> dname_context,
     pc |-> pc, todo |-> todo]

\* "if node.dname_target:" and the walk to target_node that may raise KeyError
FollowsDname(g, node) ==
    /\ node \in DOMAIN g.dname_target
    /\ Len(g.dname_target[node]) > 0
    /\ g.dname_target[node] \in g.nodes

TopFrame == call_stack[Len(call_stack)]

ReplaceTop(frame) == [call_stack EXCEPT ![Len(call_stack)] = frame]

\* the ECs of the exact path
ExactECs(path_labels) ==
    IF path_labels # <<>> THEN << ECGroup(current_domain(path_labels)) >> ELSE <<>>

\* traverse() up to its DNAME call
TraverseEnter ==
    /\ lg_status = "running"
    /\ call_stack # <<>>
    /\ TopFrame.pc = "enter"
    /\ LET f == TopFrame
           next == [f EXCEPT !.pc = "children", !.todo = children_labels(bl_lg, f.node)]
       IN IF FollowsDname(bl_lg, f.node)
          THEN /\ Len(call_stack) < MaxCallDepth
               /\ call_stack' = Append(ReplaceTop(next),
                                       Frame(bl_lg.dname_target[f.node], f.path_labels,
                                             current_domain(f.path_labels), "enter", {}))
               /\ ecs' = ecs \o ExactECs(f.path_labels)
          ELSE /\ call_stack' = ReplaceTop(next)
               /\ ecs' = ecs \o ExactECs(f.path_labels)
    /\ UNCHANGED <<bl_lg, lg_status>>
    /\ UNCHANGED <<igVars, ecVars, resolveVars, pathVars, fnVars>>

\* one round of "for label, child_node in node.children.items()"
TraverseChild ==
    /\ lg_status = "running"
    /\ call_stack # <<>>
    /\ TopFrame.pc = "children"
    /\ Len(call_stack) < MaxCallDepth
    /\ \E label \in TopFrame.todo :
         call_stack' = Append(ReplaceTop([TopFrame EXCEPT !.todo = @ \ {label}]),
                              Frame(Append(TopFrame.node, label),
                                    Append(TopFrame.path_labels, label),
                                    TopFrame.dname_context, "enter", {}))
    /\ UNCHANGED <<bl_lg, ecs, lg_status>>
    /\ UNCHANGED <<igVars, ecVars, resolveVars, pathVars, fnVars>>

\* the alpha ECs and the return
TraverseReturn ==
    /\ lg_status = "running"
    /\ call_stack # <<>>
    /\ TopFrame.pc = "children"
    /\ TopFrame.todo = {}
    /\ ecs' = IF children_labels(bl_lg, TopFrame.node) # {}
              THEN Append(ecs, ECGroup(alpha_domain(current_domain(TopFrame.path_labels))))
              ELSE ecs
    /\ call_stack' = SubSeq(call_stack, 1, Len(call_stack) - 1)
    /\ lg_status' = IF Len(call_stack) = 1 THEN "returned" ELSE lg_status
    /\ UNCHANGED bl_lg
    /\ UNCHANGED <<igVars, ecVars, resolveVars, pathVars, fnVars>>

\* a call beyond the recursion limit raises RecursionError, which the
\* "except KeyError" does not catch: generate_ecs is left without a result
TraverseRecursionError ==
    /\ lg_status = "running"
    /\ call_stack # <<>>
    /\ Len(call_stack) >= MaxCallDepth
    /\ \/ TopFrame.pc = "enter" /\ FollowsDname(bl_lg, TopFrame.node)
       \/ TopFrame.pc = "children" /\ TopFrame.todo # {}
    /\ lg_status' = "RecursionError"
    /\ call_stack' = <<>>
    /\ UNCHANGED <<bl_lg, ecs>>
    /\ UNCHANGED <<igVars, ecVars, resolveVars, pathVars, fnVars>>

NextLG == TraverseEnter \/ TraverseChild \/ TraverseReturn \/ TraverseRecursionError

-----------------------------------------------------------------------------
(* raw API: configurations and queries *)

BCOM == <<"com">>
BORG == <<"org">>
BSUB == <<"com", "sub">>
NSCOM == <<"com", "ns">>

\* com.: a CNAME loop, a self CNAME, a CNAME that leaves the server's zones,
\* a wildcard, and a delegation of loop.com. to the server itself
BZoneLoops ==
    Zone(BCOM,
         { ResourceRecord(BCOM, "SOA", NS1),
           ResourceRecord(BCOM, "NS", NS1),
           ResourceRecord(<<"com", "a">>, "CNAME", <<"com", "b">>),
           ResourceRecord(<<"com", "b">>, "CNAME", <<"com", "a">>),
           ResourceRecord(<<"com", "c">>, "CNAME", <<"com", "c">>),
           ResourceRecord(<<"com", "f">>, "CNAME", <<"net", "g">>),
           ResourceRecord(<<"com", "w">>, "A", ADDR),
           ResourceRecord(<<"com", "w", "*">>, "A", ADDR),
           ResourceRecord(<<"com", "loop">>, "NS", NS1) })

\* org.: a DNAME below d.org.
BZoneOrg ==
    Zone(BORG,
         { ResourceRecord(BORG, "SOA", NS1),
           ResourceRecord(<<"org", "d", "e">>, "DNAME", <<"org", "t">>),
           ResourceRecord(<<"org", "t", "www">>, "A", ADDR) })

BConfigLoops ==
    [top_name_servers |-> {NS1},
     zones_by_ns |-> (NS1 :> {BZoneLoops, BZoneOrg})]

\* com. delegates sub.com. to ns.com. (with glue) and to ns3., which has no zone;
\* h.com. is an alias that stays on the server, f.com. one that leaves it
BZoneParent ==
    Zone(BCOM,
         { ResourceRecord(BCOM, "SOA", NS1),
           ResourceRecord(BSUB, "NS", NSCOM),
           ResourceRecord(BSUB, "NS", NS3),
           ResourceRecord(NSCOM, "A", ADDR),
           ResourceRecord(<<"com", "loop">>, "NS", NS1),
           ResourceRecord(<<"com", "h">>, "CNAME", <<"com", "f">>),
           ResourceRecord(<<"com", "f">>, "CNAME", <<"net", "g">>) })

BZoneChild ==
    Zone(BSUB,
         { ResourceRecord(BSUB, "SOA", NSCOM),
           ResourceRecord(BSUB, "A", ADDR) })

BConfigDeleg ==
    [top_name_servers |-> {NS1, NS2},
     zones_by_ns |-> (NS1 :> {BZoneParent} @@ NS2 :> {BZoneParent}
                      @@ NSCOM :> {BZoneChild} @@ NS3 :> {})]

ResolveInputs ==
    { [cfg |-> BConfigLoops, query |-> Query(d, "A")] :
        d \in { <<"com", "a">>, <<"com", "c">>, <<"com", "f">>, <<"com", "w", "z">>,
                <<"com", "loop">>, <<"com", "zz">>, <<"org", "d">>, <<"net", "g">> } }
    \cup { [cfg |-> BConfigLoops, query |-> Query(<<"com", "c">>, "CNAME")] }
    \cup { [cfg |-> BConfigDeleg, query |-> Query(d, "A")] :
             d \in { BSUB, <<"com", "loop">>, <<"com", "f">>, <<"com", "h">>,
                     <<"com", "sub", "x">> } }

\* the items of "for ns_domain in self.config.top_name_servers"
InitialItems(cfg, query) ==
    [i \in 1..Len(cfg.top_order) |-> Item(NoneNS, NoneQuery, cfg.top_order[i], query, 0)]

InitResolve ==
    \E inp \in ResolveInputs :
      \E ord \in Orderings(inp.cfg.top_name_servers) :
        LET cfg == [top_name_servers |-> inp.cfg.top_name_servers, top_order |-> ord,
                    zones_by_ns |-> inp.cfg.zones_by_ns]
        IN /\ config = cfg
           /\ ec_query = inp.query
           /\ bl_nodes = <<>>
           /\ bl_edges = <<>>
           /\ entry_points = [i \in 1..Len(ord) |-> Key(ord[i], inp.query)]
           /\ bl_q = InitialItems(cfg, inp.query)
           /\ bl_visited = {}
           /\ last_resolve = [kind |-> "none"]
           /\ IdlePaths
           /\ IdleLG
           /\ IdleIG
           /\ IdleEC
           /\ IdleFn
           /\ dns_config = NoDnsConfig

NextBaseline ==
    \/ ResolveVisited \/ ResolveTimeout \/ ResolveLookup
    \/ GetPathsCall \/ GetPathsNextEntry \/ GetPathsLeaf \/ GetPathsExtend \/ GetPathsReturn

SpecResolve == InitResolve /\ [][NextBaseline]_vars

\* the while loop runs as long as the deque is not empty
FairSpecResolve == SpecResolve /\ WF_vars(NextResolve)

\* DNAME configurations for the label graph: a chain, a two-node cycle, a
\* self loop, and a target that is an ancestor of its owner
BZoneDname ==
    Zone(BCOM, { ResourceRecord(<<"com", "a">>, "DNAME", <<"com", "b">>),
                 ResourceRecord(<<"com", "b", "www">>, "A", ADDR) })

BZoneCycle ==
    Zone(BCOM, { ResourceRecord(<<"com", "a">>, "DNAME", <<"com", "b">>),
                 ResourceRecord(<<"com", "b">>, "DNAME", <<"com", "a">>) })

BZoneSelf ==
    Zone(BCOM, { ResourceRecord(<<"com", "e">>, "DNAME", <<"com", "e">>) })

BZoneGrow ==
    Zone(BCOM, { ResourceRecord(<<"com", "a", "x">>, "DNAME", <<"com", "a">>) })

\* two DNAME records of one owner, and a DNAME to the root
BZoneTwo ==
    Zone(BCOM, { ResourceRecord(<<"com", "a">>, "DNAME", <<"com", "b">>),
                 ResourceRecord(<<"com", "a">>, "DNAME", <<"com", "c">>),
                 ResourceRecord(<<"com", "b">>, "A", ADDR),
                 ResourceRecord(<<"com", "r">>, "DNAME", <<>>) })

BOneZoneConfig(zone) == [top_name_servers |-> {NS1}, zones_by_ns |-> (NS1 :> {zone})]

LGConfigs ==
    { BConfigLoops, BConfigDeleg }
    \cup { BOneZoneConfig(z) : z \in { BZoneDname, BZoneCycle, BZoneSelf, BZoneGrow, BZoneTwo } }

\* generate_ecs at its call traverse(self.root, [])
InitLG ==
    \E cfg \in LGConfigs :
      \E g \in LabelGraphs(cfg) :
        /\ config = [top_name_servers |-> cfg.top_name_servers, top_order |-> <<>>,
                     zones_by_ns |-> cfg.zones_by_ns]
        /\ bl_lg = g
        /\ call_stack = << Frame(<<>>, <<>>, NoneContext, "enter", {}) >>
        /\ ecs = <<>>
        /\ lg_status = "running"
        /\ ec_query = [domain |-> <<>>, type |-> "None"]
        /\ bl_nodes = <<>>
        /\ bl_edges = <<>>
        /\ entry_points = <<>>
        /\ bl_q = <<>>
        /\ bl_visited = {}
        /\ last_resolve = [kind |-> "none"]
        /\ IdlePaths
        /\ IdleIG
        /\ IdleEC
        /\ IdleFn
        /\ dns_config = NoDnsConfig

SpecLG == InitLG /\ [][NextLG]_vars

-----------------------------------------------------------------------------
(* raw API: properties *)

DepthBounded == \A i \in 1..Len(bl_q) : bl_q[i].depth <= MAX_RESOLUTION_DEPTH

ExpandedWithinDepth ==
    last_resolve.kind = "lookup" => last_resolve.item.depth <= MAX_RESOLUTION_DEPTH

DepthLimitEnqueuesNothing ==
    (last_resolve.kind \in {"lookup", "timeout"}
     /\ last_resolve.item.depth >= MAX_RESOLUTION_DEPTH)
    => last_resolve.enqueued = <<>>

\* C2: Resolver.resolve terminates -- the deque empties -- on every
\* configuration, CNAME, DNAME and referral loops included; no item deeper than
\* MAX_RESOLUTION_DEPTH is ever enqueued or looked up, and an item popped at
\* depth MAX_RESOLUTION_DEPTH enqueues no successor.
C2_ResolveTerminates ==
    /\ <>(bl_q = <<>>)
    /\ [](DepthBounded /\ ExpandedWithinDepth /\ DepthLimitEnqueuesNothing)

\* a loop was cut at the depth limit and resolve has returned
C2_Witness ==
    /\ bl_q = <<>>
    /\ last_resolve.kind = "timeout"
    /\ last_resolve.item.depth = MAX_RESOLUTION_DEPTH

\* server s hosts a zone whose origin is a label-wise suffix of name qd
HostsSuffixZone(s, qd) ==
    \E z \in ZonesOf(config, s) :
        /\ Len(z.domain) <= Len(qd)
        /\ \A i \in 1..Len(z.domain) : z.domain[i] = qd[i]

EnqueuedTargets == { <<last_resolve.enqueued[i].ns_domain, last_resolve.enqueued[i].current_q>> :
                       i \in 1..Len(last_resolve.enqueued) }

\* C10: AnsQ locality -- after a lookup at server s that returned AnsQ with
\* rewritten query q', the successors enqueued are exactly (s, q') if s hosts a
\* zone whose origin is a suffix of q', and exactly (r, q') for each top name
\* server r otherwise.
C10_AnsQLocality ==
    (last_resolve.kind = "lookup" /\ last_resolve.answer.tag = "AnsQ")
    => LET s == last_resolve.item.ns_domain
           q2 == last_resolve.answer.rewritten_query
       IN IF HostsSuffixZone(s, q2.domain)
          THEN /\ EnqueuedTargets = { <<s, q2>> }
               /\ Len(last_resolve.enqueued) = 1
          ELSE /\ EnqueuedTargets = { <<r, q2>> : r \in config.top_name_servers }
               /\ Len(last_resolve.enqueued) = Cardinality(config.top_name_servers)

\* a query that came from a local rewrite is rewritten to a name the server
\* does not host, and goes to both top name servers
C10_Witness ==
    /\ last_resolve.kind = "lookup"
    /\ last_resolve.answer.tag = "AnsQ"
    /\ last_resolve.item.from_ns = last_resolve.item.ns_domain
    /\ ~HostsSuffixZone(last_resolve.item.ns_domain, last_resolve.answer.rewritten_query.domain)
    /\ Len(last_resolve.enqueued) = 2

\* no node occurs twice in a list of node keys
Simple(p) == \A i, j \in 1..Len(p) : p[i] = p[j] => i = j

\* C6: get_paths truncates a path when it re-enters a node already on it:
\* no path that has re-entered a node is extended any further, in the deque
\* or in the result.
C6_PathsTruncated ==
    /\ \A k \in 1..Len(path_q) : Simple(SubSeq(path_q[k], 1, Len(path_q[k]) - 1))
    /\ \A k \in 1..Len(paths) :
         Simple([i \in 1..(Len(paths[k]) - 1) |-> paths[k][i].key])

\* C5: generate_ecs returns an EC list on every label graph, DNAME cycles
\* included: the traversal never ends in a RecursionError.
C5_GenerateEcsReturns == lg_status # "RecursionError"

-----------------------------------------------------------------------------
(* Groot_v1 step4: single calls of symbolic_server_lookup *)

\* CNAME next to data at one owner, a delegation that also holds data
ZoneMixed ==
    [origin |-> COM,
     records |-> << RR(COM, "SOA", SOADATA),
                    RR(COM, "NS", NS1),
                    RR(<<"a", "com">>, "CNAME", <<"b", "com">>),
                    RR(<<"a", "com">>, "A", ADDR),
                    RR(<<"b", "com">>, "A", ADDR),
                    RR(SUBCOM, "NS", NS3),
                    RR(SUBCOM, "A", ADDR),
                    RR(<<"*", "w", "com">>, "CNAME", <<"b", "com">>),
                    RR(<<"w", "com">>, "A", ADDR) >>]

\* an apex that has NS records and no SOA record
ZoneNoSoa ==
    [origin |-> COM,
     records |-> << RR(COM, "NS", NS1),
                    RR(<<"www", "com">>, "A", ADDR) >>]

\* the root zone with a DNAME at the root
ZoneRootDname ==
    [origin |-> Root,
     records |-> << RR(Root, "SOA", SOADATA),
                    RR(Root, "NS", NS1),
                    RR(Root, "DNAME", <<"x", "org">>),
                    RR(<<"org">>, "A", ADDR) >>]

\* the root zone with a wildcard below the root
ZoneRootWild ==
    [origin |-> Root,
     records |-> << RR(Root, "SOA", SOADATA),
                    RR(Root, "NS", NS1),
                    RR(<<"*">>, "A", ADDR),
                    RR(<<"org">>, "A", ADDR) >>]

QueriesCom ==
    { COM, <<"a", "com">>, <<"b", "com">>, <<"c", "com">>, SUBCOM, <<"x", "sub", "com">>,
      <<"www", "com">>, <<"w", "com">>, <<"z", "w", "com">>, <<"y", "z", "w", "com">>,
      <<"y", "d", "com">>, <<"q", "com">> }

QueriesRoot == { Root, <<"org">>, <<"net">>, <<"a", "b">> }

\* the calls made by the worklist always have the zone origin as a suffix of
\* the query (find_authoritative_zone)
LookupInputs ==
    { [fn |-> "symbolic_server_lookup", zone |-> z, query |-> qn, types |-> ts] :
        z \in { ZoneLoops, ZoneParent, ZoneMixed, ZoneNoSoa }, qn \in QueriesCom, ts \in TypeLists }
    \cup
    { [fn |-> "symbolic_server_lookup", zone |-> z, query |-> qn, types |-> ts] :
        z \in { ZoneRootDname, ZoneRootWild }, qn \in QueriesRoot, ts \in TypeLists }

IdleGroot == IdleIG /\ IdleEC /\ dns_config = NoDnsConfig

InitLookup ==
    /\ fn_args \in LookupInputs
    /\ fn_result = <<>>
    /\ fn_pc = "called"
    /\ IdleGroot
    /\ IdleBaseline

\* the call returns its result list; closest_encloser is its local variable
CallSymbolicServerLookup ==
    /\ fn_pc = "called"
    /\ fn_args.fn = "symbolic_server_lookup"
    /\ fn_result' = [results |-> symbolic_server_lookup(fn_args.zone, fn_args.query, fn_args.types),
                     closest_encloser |-> ClosestEncloser(fn_args.zone, fn_args.query)]
    /\ fn_pc' = "returned"
    /\ UNCHANGED <<fn_args, igVars, ecVars, resolveVars, pathVars, lgVars>>

NextLookup == CallSymbolicServerLookup

SpecLookup == InitLookup /\ [][NextLookup]_vars

LookupReturned == fn_pc = "returned" /\ fn_args.fn = "symbolic_server_lookup"

\* the outcome group that query type t ended up in
GroupOf(t) == CHOOSE g \in SeqToSet(fn_result.results) : t \in SeqToSet(g.types)

\* the rdata of the records of type t at an owner / all records at an owner
RdataAt(zone, owner, t) ==
    { zone.records[i].rdata :
        i \in { j \in 1..Len(zone.records) :
                  zone.records[j].name = owner /\ zone.records[j].type = t } }

\* the outcome the exact-match rule prescribes for type t at owner n
ExactRule(zone, n, t, g) ==
    IF RdataAt(zone, n, "NS") # {} /\ n # zone.origin
    THEN g.type = "REF" /\ SeqToSet(g.targets) = RdataAt(zone, n, "NS")
    ELSE IF RdataAt(zone, n, t) # {}
    THEN g.type = "ANS" /\ RdataAt(zone, n, t) \subseteq { r.rdata : r \in SeqToSet(g.records) }
    ELSE IF RdataAt(zone, n, "CNAME") # {} /\ t # "CNAME"
    THEN g.type = "ANSQ" /\ g.new_query \in RdataAt(zone, n, "CNAME")
    ELSE g.type = "ANS" /\ \A r \in SeqToSet(g.records) : r.type # t

\* C11: exact match in symbolic_server_lookup -- when the closest encloser is
\* the query name, type t gets REF if the name holds NS records and is not the
\* apex, else ANS with the records of type t if there are any, else ANSQ to the
\* CNAME target if there is a CNAME and t is not CNAME, else ANS without
\* records.
C11_ExactMatchOrder ==
    (LookupReturned /\ fn_result.closest_encloser = fn_args.query)
    => \A t \in SeqToSet(fn_args.types) :
         ExactRule(fn_args.zone, fn_args.query, t, GroupOf(t))

\* the outcome the ancestor-match rule prescribes for type t below encloser ce
AncestorRule(zone, qn, ce, t, g) ==
    LET wild == <<"*">> \o ce
    IN IF RdataAt(zone, ce, "DNAME") # {}
       THEN /\ g.type = "ANSQ"
            /\ \E target \in RdataAt(zone, ce, "DNAME") :
                 g.new_query = SubSeq(qn, 1, Len(qn) - Len(ce)) \o target
       ELSE IF "NS" \in TypesAt(zone, ce) /\ "SOA" \notin TypesAt(zone, ce)
       THEN g.type = "REF" /\ SeqToSet(g.targets) = RdataAt(zone, ce, "NS")
       ELSE IF Owned(zone, wild)
       THEN /\ g.type = DataOutcome(zone, wild, t).type
            /\ g.new_query = DataOutcome(zone, wild, t).new_query
            /\ SeqToSet(DataOutcome(zone, wild, t).records) \subseteq SeqToSet(g.records)
       ELSE g.type = "NX"

\* C12: ancestor match in symbolic_server_lookup -- when the closest encloser
\* ce is a proper ancestor of the query, type t gets ANSQ if ce holds a DNAME,
\* the new query being the query with the suffix ce replaced by the DNAME
\* target and the labels left of ce kept; else REF if ce is a zone cut; else
\* the CNAME / data / NoData outcome of the wildcard owner *.ce if that owner
\* exists; else NX. Stated for every zone origin, the root zone included.
C12_AncestorMatch ==
    (LookupReturned /\ fn_result.closest_encloser # fn_args.query)
    => \A t \in SeqToSet(fn_args.types) :
         AncestorRule(fn_args.zone, fn_args.query, fn_result.closest_encloser, t, GroupOf(t))

\* the proper ancestors of a name that lie inside the zone
AncestorsInZone(zone, qn) ==
    { StripLeft(qn, i) : i \in { j \in 1..Len(qn) : IsSuffix(zone.origin, StripLeft(qn, j)) } }

\* C13: closest-encloser monotonicity -- for a query q1 inside the zone and
\* every ancestor q2 of q1 inside the zone, the closest encloser of q1 is equal
\* to or a descendant of the closest encloser of q2; and the closest encloser
\* of q1 is the zone origin or an owner name of the zone that is an ancestor of
\* q1 or q1 itself.
C13_ClosestEncloserMonotone ==
    (LookupReturned /\ IsSuffix(fn_args.zone.origin, fn_args.query))
    => /\ \A q2 \in AncestorsInZone(fn_args.zone, fn_args.query) :
            IsSuffix(ClosestEncloser(fn_args.zone, q2), fn_result.closest_encloser)
       /\ \/ fn_result.closest_encloser = fn_args.zone.origin
          \/ /\ Owned(fn_args.zone, fn_result.closest_encloser)
             /\ IsSuffix(fn_result.closest_encloser, fn_args.query)

\* a query two levels below its closest encloser, which is an owner below the
\* origin and a strict descendant of the closest encloser of an ancestor
C13_Witness ==
    /\ LookupReturned
    /\ IsSuffix(fn_args.zone.origin, fn_args.query)
    /\ Len(fn_args.query) >= Len(fn_result.closest_encloser) + 2
    /\ fn_result.closest_encloser # fn_args.zone.origin
    /\ Owned(fn_args.zone, fn_result.closest_encloser)
    /\ \E q2 \in AncestorsInZone(fn_args.zone, fn_args.query) :
         ClosestEncloser(fn_args.zone, q2) # fn_result.closest_encloser

(***************************************************************************)
(* Single calls of the baseline Resolver._zone_lookup.                     *)
(***************************************************************************)

\* com.: data at sub.com., below it, and a wildcard below it
BZoneRank ==
    Zone(BCOM,
         { ResourceRecord(BCOM, "SOA", NS1),
           ResourceRecord(BSUB, "A", ADDR),
           ResourceRecord(<<"com", "sub", "www">>, "A", ADDR),
           ResourceRecord(<<"com", "sub", "*">>, "A", ADDR) })

RankQueries ==
    { BCOM, <<"com", "a">>, <<"com", "w">>, <<"com", "w", "z">>, BSUB,
      <<"com", "sub", "x">>, <<"com", "sub", "www">>, <<"com", "zz">>,
      BORG, <<"org", "d">>, <<"org", "d", "e", "x">>, <<"org", "t", "www">> }

\* _server_lookup hands _zone_lookup a zone whose domain is a prefix of the query
RankInputs ==
    { a \in { [fn |-> "zone_lookup", zone |-> z, query |-> Query(d, t)] :
                z \in { BZoneLoops, BZoneOrg, BZoneParent, BZoneChild, BZoneRank },
                d \in RankQueries, t \in { "A", "NS", "CNAME" } } :
        is_prefix(a.query.domain, a.zone.domain) }

InitRank ==
    /\ fn_args \in RankInputs
    /\ fn_result = <<>>
    /\ fn_pc = "called"
    /\ IdleGroot
    /\ IdleBaseline

\* one call of _zone_lookup; best_records is its local variable
CallZoneLookup ==
    /\ fn_pc = "called"
    /\ fn_args.fn = "zone_lookup"
    /\ fn_result' = [best_records |-> best_records(fn_args.zone, fn_args.query),
                     answers |-> zone_lookup(BConfigLoops, fn_args.zone, fn_args.query)]
    /\ fn_pc' = "returned"
    /\ UNCHANGED <<fn_args, igVars, ecVars, resolveVars, pathVars, lgVars>>

NextRank == CallZoneLookup

SpecRank == InitRank /\ [][NextRank]_vars

\* the owner is the query name, an ancestor of it, or a wildcard whose parent
\* is a proper ancestor of it
OwnerCovers(r_domain, q_domain) ==
    \/ r_domain = q_domain
    \/ is_prefix(q_domain, r_domain)
    \/ /\ is_wildcard(r_domain)
       /\ is_prefix(q_domain, WildcardBase(r_domain))
       /\ q_domain # WildcardBase(r_domain)

\* C14: rank selection in the baseline resolver -- every record of the
\* best-ranked set of _zone_lookup has an owner that is the query name, an
\* ancestor of it, or a wildcard whose parent is a proper ancestor of it; a
\* record at the query name outranks every wildcard record; a zone-cut NS
\* outranks data at the same owner.
C14_RankSelection ==
    (fn_pc = "returned" /\ fn_args.fn = "zone_lookup")
    => /\ \A r \in fn_result.best_records : OwnerCovers(r.domain, fn_args.query.domain)
       /\ (\E r \in fn_args.zone.records : r.domain = fn_args.query.domain)
            => \A r \in fn_result.best_records : ~is_wildcard(r.domain)
       /\ \A r \in fn_result.best_records :
            (\E n \in fn_args.zone.records :
               n.domain = r.domain /\ n.type = "NS" /\ n.domain # fn_args.zone.domain)
            => r.type = "NS"

(***************************************************************************)
(* Groot_v1 step1 configuration initialization followed by one call of     *)
(* step4 find_authoritative_zone on the configuration it built.            *)
(***************************************************************************)

\* an entry of "zones" in metadata.json together with the records that
\* parse_zone_file returns for its file
ZoneInfo(domain_name, file_name, authoritative_servers, records) ==
    [domain_name |-> domain_name, file_name |-> file_name,
     authoritative_servers |-> authoritative_servers, records |-> records]

\* get_key(...) default "" for a missing origin
NoName == <<"">>

\* zone_obj = {"origin": z_name, "records": parsed_records}
zone_obj(info) == [origin |-> info.domain_name, records |-> info.records]

\* the entries the loop does not skip: "if not z_name or not file_name: continue"
Registered(meta) ==
    { i \in 1..Len(meta.zones) :
        meta.zones[i].domain_name # NoName /\ meta.zones[i].file_name # "" }

Ascending(I) ==
    [k \in 1..Cardinality(I) |-> CHOOSE i \in I : Cardinality({ j \in I : j < i }) = k - 1]

\* gamma_dict[ns_id]: the zone objects of the entries that list ns_id, in
\* metadata order, an object equal to an earlier one of the list left out
gamma_dict(meta) ==
    [ns \in UNION { SeqToSet(meta.zones[i].authoritative_servers) : i \in Registered(meta) } |->
        LET lists(i) == ns \in SeqToSet(meta.zones[i].authoritative_servers)
            kept == Ascending({ i \in Registered(meta) :
                       /\ lists(i)
                       /\ ~\E j \in Registered(meta) :
                            j < i /\ lists(j) /\ zone_obj(meta.zones[j]) = zone_obj(meta.zones[i]) })
        IN [k \in 1..Len(kept) |-> zone_obj(meta.zones[kept[k]])]]

\* domain_to_zone[z_name] = zone_obj: the last entry of an origin stays
domain_to_zone(meta) ==
    [z \in { meta.zones[i].domain_name : i \in Registered(meta) } |->
        LET last == CHOOSE i \in Registered(meta) :
                      /\ meta.zones[i].domain_name = z
                      /\ \A j \in Registered(meta) : meta.zones[j].domain_name = z => j <= i
        IN zone_obj(meta.zones[last])]

\* (config, domain_to_zone); S and Theta are lists made from sets
input_parsing_and_configuration_initialization(meta) ==
    [config |-> [S |-> SeqToSet(meta.root_nameservers) \cup DOMAIN gamma_dict(meta),
                 Theta |-> SeqToSet(meta.root_nameservers),
                 Gamma |-> gamma_dict(meta),
                 Omega |-> [ns \in SeqToSet(meta.root_nameservers) \cup DOMAIN gamma_dict(meta) |-> ns]],
     domain_to_zone |-> domain_to_zone(meta)]

\* find_authoritative_zone on that configuration: the elements of
\* Gamma[server] are the Zone dicts themselves, so the first iteration of
\* "for zone_name in served_zones" evaluates zone_name.endswith('.') on a dict
\* and raises AttributeError; without an iteration best_zone stays None.
find_authoritative_zone_parsed(server, query, parsed) ==
    IF server \notin DOMAIN parsed.config.Gamma
    THEN [raised |-> "", zone |-> NoZone]
    ELSE IF parsed.config.Gamma[server] = <<>>
    THEN [raised |-> "", zone |-> NoZone]
    ELSE [raised |-> "AttributeError", zone |-> NoZone]

FileCom1 ==
    ZoneInfo(COM, "com1.txt", <<NS1>>,
             << RR(COM, "SOA", SOADATA), RR(COM, "NS", NS1), RR(<<"www", "com">>, "A", ADDR) >>)

\* the replica of com. on ns2. has no www.com.
FileCom2 ==
    ZoneInfo(COM, "com2.txt", <<NS2>>,
             << RR(COM, "SOA", SOADATA), RR(COM, "NS", NS1) >>)

FileSub ==
    ZoneInfo(SUBCOM, "sub.txt", <<NS1>>,
             << RR(SUBCOM, "SOA", SOADATA), RR(<<"www", "sub", "com">>, "A", ADDR) >>)

FileOrg ==
    ZoneInfo(<<"org">>, "org.txt", <<NS1, NS2>>, << RR(<<"org">>, "SOA", SOADATA) >>)

FileNoFile == ZoneInfo(<<"net">>, "", <<NS2>>, <<>>)

Metadatas ==
    { [root_nameservers |-> <<NS1>>, zones |-> zs] :
        zs \in { <<FileCom1, FileCom2>>, <<FileCom2, FileCom1>>, <<FileCom1, FileSub, FileOrg>>,
                 <<FileOrg>>, <<FileCom1, FileCom1, FileSub>>, <<FileNoFile, FileSub, FileCom2>> } }

ConfigInputs ==
    { [fn |-> "find_authoritative_zone", meta |-> m, server |-> s, query |-> qn] :
        m \in Metadatas, s \in { NS1, NS2, NS3 },
        qn \in { <<"www", "com">>, <<"x", "sub", "com">>, <<"org">>, <<"net">>, COM } }

InitConfig ==
    /\ fn_args \in ConfigInputs
    /\ fn_result = <<>>
    /\ fn_pc = "called"
    /\ IdleGroot
    /\ IdleBaseline

\* run.py step 1
CallInputParsing ==
    /\ fn_pc = "called"
    /\ fn_args.fn = "find_authoritative_zone"
    /\ fn_result' = [parsed |-> input_parsing_and_configuration_initialization(fn_args.meta)]
    /\ fn_pc' = "parsed"
    /\ UNCHANGED <<fn_args, igVars, ecVars, resolveVars, pathVars, lgVars>>

\* the zone retrieval of step 4 for one (server, query)
CallFindAuthoritativeZone ==
    /\ fn_pc = "parsed"
    /\ fn_args.fn = "find_authoritative_zone"
    /\ fn_result' = [parsed |-> fn_result.parsed,
                     found |-> find_authoritative_zone_parsed(fn_args.server, fn_args.query,
                                                              fn_result.parsed)]
    /\ fn_pc' = "returned"
    /\ UNCHANGED <<fn_args, igVars, ecVars, resolveVars, pathVars, lgVars>>

NextConfig == CallInputParsing \/ CallFindAuthoritativeZone

SpecConfig == InitConfig /\ [][NextConfig]_vars

FindReturned == fn_pc = "returned" /\ fn_args.fn = "find_authoritative_zone"

\* the metadata entries registered for a server whose origin is a label-wise
\* suffix of the query
HostedMatching(meta, server, qn) ==
    { i \in Registered(meta) :
        /\ server \in SeqToSet(meta.zones[i].authoritative_servers)
        /\ IsSuffix(meta.zones[i].domain_name, qn) }

\* C15: zone selection -- find_authoritative_zone returns the zone with the
\* longest origin among the zones hosted on the server whose origin is a
\* label-wise suffix of the query, and returns None exactly when the server
\* hosts no such zone.
C15_ZoneSelection ==
    FindReturned
    => LET m == HostedMatching(fn_args.meta, fn_args.server, fn_args.query)
       IN /\ fn_result.found.raised = ""
          /\ (m = {}) <=> (fn_result.found.zone = NoZone)
          /\ m # {} => \E i \in m :
                         /\ fn_result.found.zone = zone_obj(fn_args.meta.zones[i])
                         /\ \A j \in m : Len(fn_args.meta.zones[j].domain_name)
                                           <= Len(fn_args.meta.zones[i].domain_name)

\* C16: replicated zones -- when the zone selected for the server has a
\* replica with the same origin and other records registered for another
\* server only, the lookup at the server returns the records of the file
\* registered for that server.
C16_ReplicaRecords ==
    FindReturned
    => LET meta == fn_args.meta
           m == HostedMatching(meta, fn_args.server, fn_args.query)
       IN \A i \in m :
            ( /\ \A j \in m : /\ Len(meta.zones[j].domain_name) <= Len(meta.zones[i].domain_name)
                              /\ meta.zones[j].domain_name = meta.zones[i].domain_name => j = i
              /\ \E k \in Registered(meta) :
                   /\ meta.zones[k].domain_name = meta.zones[i].domain_name
                   /\ fn_args.server \notin SeqToSet(meta.zones[k].authoritative_servers)
                   /\ meta.zones[k].records # meta.zones[i].records )
            => /\ fn_result.found.raised = ""
               /\ fn_result.found.zone.records = meta.zones[i].records

(***************************************************************************)
(* AutoGen: zone_parser.load_dataset, GrootEngine.resolve and the          *)
(* 'Rewrites' branch of checkers.run_checks for one concrete query.        *)
(* Names are leaf-first label sequences; a zone name also records whether  *)
(* its string ends with a dot, because resolve compares strings.           *)
(***************************************************************************)

MaxLimit == 5

\* while-loop guard of resolve: "if steps > 1000: break"
StepLimit == 1000

\* the labels in use that hold upper-case letters, with their lower-case form
LowerOf == [l \in {"A", "B", "Foo", "COM"} |->
              CASE l = "A" -> "a" [] l = "B" -> "b" [] l = "Foo" -> "foo" [] l = "COM" -> "com"]

\* str.lower() on a name
lower(labels) ==
    [i \in 1..Len(labels) |-> IF labels[i] \in DOMAIN LowerOf THEN LowerOf[labels[i]] ELSE labels[i]]

\* Record(name, rtype, rclass, ttl, rdata): the name is lowered, the rdata kept
Record(name, rtype, rdata) == [name |-> lower(name), rtype |-> rtype, rdata |-> rdata]

NoOrigin == [labels |-> <<"">>, fqdn |-> FALSE]

\* an entry of ZoneFiles with the records parse_zone_file reads from the file;
\* stem is the file name without ".txt"
ZoneFile(stem, NameServer, Origin, records) ==
    [stem |-> stem, NameServer |-> NameServer, Origin |-> Origin, records |-> records]

\* origin = zf.get('Origin'); if not origin: origin = basename without ".txt";
\* Zone(origin, server) lowers both names and adds no final dot
load_dataset(meta) ==
    [top_ns |-> meta.TopNameServers,
     zones |-> [i \in 1..Len(meta.ZoneFiles) |->
                  [name |-> LET origin == IF meta.ZoneFiles[i].Origin # NoOrigin
                                          THEN meta.ZoneFiles[i].Origin
                                          ELSE meta.ZoneFiles[i].stem
                            IN [origin EXCEPT !.labels = lower(@)],
                   server_name |-> lower(meta.ZoneFiles[i].NameServer),
                   records |-> meta.ZoneFiles[i].records]]]

\* self.server_zones[ns]; empty when ns is not a key
server_zones(engine, ns) == SelectSeq(engine.zones, LAMBDA z : z.server_name = ns)

\* curr_q_name.endswith(z.name): the query always ends with a dot, so a zone
\* name without the final dot is never a suffix of it; for names with the
\* dot, the zones in use make the character test and the label test agree
EndsWith(qname, zname) == zname.fqdn /\ IsSuffix(zname.labels, qname)

\* the first zone with the strictly longest name among those that match
best_zone(engine, curr_ns, curr_q_name) ==
    LET possible == server_zones(engine, curr_ns)
        cands == { i \in 1..Len(possible) : EndsWith(curr_q_name, possible[i].name) }
    IN IF cands = {} THEN <<>>
       ELSE << possible[CHOOSE i \in cands :
                 \A j \in cands :
                   \/ Len(possible[j].name.labels) < Len(possible[i].name.labels)
                   \/ (Len(possible[j].name.labels) = Len(possible[i].name.labels) /\ i <= j)] >>

\* the nodes of nns that get appended: not visited, first occurrence
Kept(nns, visited) ==
    LET a == Ascending({ i \in 1..Len(nns) :
                 nns[i] \notin visited /\ \A j \in 1..(i - 1) : nns[j] # nns[i] })
    IN [k \in 1..Len(a) |-> nns[a[k]]]

\* final_states.append(...); finals remembers the node that ended there
FinalState(st, node, type) ==
    [st EXCEPT !.final_states = Append(@, [type |-> type, ns |-> node[1]]),
               !.finals = @ \cup {node}]

\* the CNAME branch: restart at every top name server
RewriteTo(engine, st, node, new_q) ==
    LET nns == [i \in 1..Len(engine.top_ns) |-> <<engine.top_ns[i], new_q, node[3]>>]
    IN [st EXCEPT !.queue = @ \o Kept(nns, st.visited),
                  !.visited = @ \cup SeqToSet(nns),
                  !.graph = @ \cup { [from |-> <<node[1], node[2]>>, action |-> "REWRITE",
                                      target |-> nns[i]] : i \in 1..Len(nns) }]

\* the NS branches: one node per NS record; referrals remembers the step
ReferTo(st, node, ns_recs) ==
    LET nns == [i \in 1..Len(ns_recs) |-> <<ns_recs[i].rdata, node[2], node[3]>>]
    IN [st EXCEPT !.queue = @ \o Kept(nns, st.visited),
                  !.visited = @ \cup SeqToSet(nns),
                  !.referrals = @ \cup { <<node, nns[i]>> : i \in 1..Len(nns) }]

\* the records of the first "*." + ".".join(parts[i:]) that owns records
wildcard_match(records, qname) ==
    LET owns(i) == \E k \in 1..Len(records) : records[k].name = <<"*">> \o StripLeft(qname, i)
        I == { i \in 0..Len(qname) : owns(i) }
    IN IF I = {} THEN <<>>
       ELSE SelectSeq(records, LAMBDA r : r.name = <<"*">> \o StripLeft(qname, Min(I)))

\* len(name.strip('.').split('.'))
PartsLen(labels) == IF labels = <<>> THEN 1 ELSE Len(labels)

\* the NS records of the first zone cut between the query and the zone name
cuts(zone, qname) ==
    LET at(i) == SelectSeq(zone.records,
                           LAMBDA r : r.name = StripLeft(qname, i) /\ r.rtype = "NS")
        I == { i \in 1..(PartsLen(qname) - PartsLen(zone.name.labels)) : at(i) # <<>> }
    IN IF I = {} THEN <<>> ELSE at(Min(I))

\* one iteration of "while queue" after the popleft
Expand(engine, st, node) ==
    LET curr_ns == node[1]
        curr_q_name == node[2]
        curr_q_type == node[3]
        bz == best_zone(engine, curr_ns, curr_q_name)
    IN IF server_zones(engine, curr_ns) = <<>>
       THEN [FinalState(st, node, "EXTERNAL") EXCEPT
               !.external_ns_contacted = IF curr_ns \in SeqToSet(@) THEN @ ELSE Append(@, curr_ns)]
       ELSE IF bz = <<>> THEN FinalState(st, node, "REFUSED")
       ELSE LET records == bz[1].records
                matches == SelectSeq(records, LAMBDA r : r.name = curr_q_name)
                type_matches == SelectSeq(matches, LAMBDA r : r.rtype = curr_q_type)
                cname_matches == SelectSeq(matches, LAMBDA r : r.rtype = "CNAME")
                ns_matches == SelectSeq(matches, LAMBDA r : r.rtype = "NS")
                wm == wildcard_match(records, curr_q_name)
                wc_cname == SelectSeq(wm, LAMBDA r : r.rtype = "CNAME")
                wc_ans == SelectSeq(wm, LAMBDA r : r.rtype = curr_q_type)
            IN IF type_matches # <<>> THEN FinalState(st, node, "ANSWER")
               ELSE IF cname_matches # <<>> THEN RewriteTo(engine, st, node, cname_matches[1].rdata)
               ELSE IF ns_matches # <<>>
               THEN IF bz[1].name.fqdn /\ curr_q_name = bz[1].name.labels
                    THEN FinalState(st, node, "NODATA")
                    ELSE ReferTo(st, node, ns_matches)
               ELSE IF wm # <<>>
               THEN IF wc_cname # <<>> THEN RewriteTo(engine, st, node, wc_cname[1].rdata)
                    ELSE IF wc_ans # <<>> THEN FinalState(st, node, "ANSWER")
                    ELSE FinalState(st, node, "NODATA")
               ELSE IF cuts(bz[1], curr_q_name) # <<>>
               THEN ReferTo(st, node, cuts(bz[1], curr_q_name))
               ELSE FinalState(st, node, "NXDOMAIN")

\* resolve up to the while loop: every top name server is queued and visited
ResolveStart(engine, query_str, record_type) ==
    LET first == [i \in 1..Len(engine.top_ns) |->
                    <<engine.top_ns[i], lower(query_str), record_type>>]
    IN [queue |-> first,
        visited |-> SeqToSet(first), graph |-> {}, external_ns_contacted |-> <<>>,
        final_states |-> <<>>, steps |-> 0, referrals |-> {}, finals |-> {},
        entries |-> SeqToSet(first)]

\* run_checks, 'Rewrites': count = len(set(v[1] for v in visited)) - 1 > limit
RewritesViolation(st, limit) == Cardinality({ v[2] : v \in st.visited }) - 1 > limit

FOO == <<"foo", "com">>
NSFOO == <<"ns1", "foo", "com">>
Dotted(labels) == [labels |-> labels, fqdn |-> TRUE]

\* the zone of setup_test2
ChainRecords ==
    << Record(FOO, "SOA", NSFOO), Record(FOO, "NS", NSFOO),
       Record(<<"*", "a", "foo", "com">>, "CNAME", <<"b", "a", "foo", "com">>),
       Record(<<"b", "a", "foo", "com">>, "CNAME", <<"c", "a", "foo", "com">>),
       Record(<<"c", "a", "foo", "com">>, "CNAME", <<"d", "a", "foo", "com">>),
       Record(<<"d", "a", "foo", "com">>, "CNAME", <<"e", "a", "foo", "com">>),
       Record(<<"e", "a", "foo", "com">>, "CNAME", <<"f", "a", "foo", "com">>),
       Record(<<"f", "a", "foo", "com">>, "A", ADDR) >>

\* setup_test2: the metadata has no Origin, the file is foo.com.txt
Test2Meta ==
    [TopNameServers |-> <<NSFOO>>,
     ZoneFiles |-> << ZoneFile([labels |-> FOO, fqdn |-> FALSE], NSFOO, NoOrigin, ChainRecords) >>]

\* the same zone with "Origin": "foo.com."
ChainMeta ==
    [TopNameServers |-> <<NSFOO>>,
     ZoneFiles |-> << ZoneFile(Dotted(FOO), NSFOO, Dotted(FOO), ChainRecords) >>]

\* two top name servers hold foo.com. with different CNAME targets
ReplicaMeta ==
    [TopNameServers |-> <<NS1, NS2>>,
     ZoneFiles |->
       << ZoneFile(Dotted(FOO), NS1, Dotted(FOO),
                   << Record(<<"a", "foo", "com">>, "CNAME", <<"b", "foo", "com">>),
                      Record(<<"b", "foo", "com">>, "A", ADDR) >>),
          ZoneFile(Dotted(FOO), NS2, Dotted(FOO),
                   << Record(<<"a", "foo", "com">>, "CNAME", <<"c", "foo", "com">>),
                      Record(<<"c", "foo", "com">>, "A", ADDR) >>) >>]

\* the second replica rewrites b back to a, which it answers
BackMeta ==
    [TopNameServers |-> <<NS1, NS2>>,
     ZoneFiles |->
       << ZoneFile(Dotted(FOO), NS1, Dotted(FOO),
                   << Record(<<"a", "foo", "com">>, "CNAME", <<"b", "foo", "com">>) >>),
          ZoneFile(Dotted(FOO), NS2, Dotted(FOO),
                   << Record(<<"a", "foo", "com">>, "A", ADDR),
                      Record(<<"b", "foo", "com">>, "CNAME", <<"a", "foo", "com">>) >>) >>]

LoopMeta ==
    [TopNameServers |-> <<NS1>>,
     ZoneFiles |->
       << ZoneFile(Dotted(FOO), NS1, Dotted(FOO),
                   << Record(<<"a", "foo", "com">>, "CNAME", <<"b", "foo", "com">>),
                      Record(<<"b", "foo", "com">>, "CNAME", <<"a", "foo", "com">>) >>) >>]

\* a delegation to ns3. (hosted) and ns4. (not hosted), rewrites on both sides
DelegMeta ==
    [TopNameServers |-> <<NS1>>,
     ZoneFiles |->
       << ZoneFile(Dotted(FOO), NS1, Dotted(FOO),
                   << Record(FOO, "SOA", NS1),
                      Record(<<"sub", "foo", "com">>, "NS", NS3),
                      Record(<<"sub", "foo", "com">>, "NS", NS4),
                      Record(<<"a", "foo", "com">>, "CNAME", <<"x", "sub", "foo", "com">>) >>),
          ZoneFile(Dotted(<<"sub", "foo", "com">>), NS3, Dotted(<<"sub", "foo", "com">>),
                   << Record(<<"x", "sub", "foo", "com">>, "CNAME", <<"y", "sub", "foo", "com">>),
                      Record(<<"y", "sub", "foo", "com">>, "A", ADDR) >>) >>]

TestLabelQuery == <<"testlabel", "a", "foo", "com">>

\* concrete_q of run_checks: an owner name, or "testlabel" below a node of the
\* label graph
ConcreteQueries(meta) ==
    LET owners == UNION { { meta.ZoneFiles[i].records[k].name :
                              k \in 1..Len(meta.ZoneFiles[i].records) } :
                          i \in 1..Len(meta.ZoneFiles) }
    IN { qn \in { TestLabelQuery, <<"b", "a", "foo", "com">>, <<"a", "foo", "com">>,
                  <<"b", "foo", "com">>, <<"x", "sub", "foo", "com">>,
                  <<"testlabel", "foo", "com">> } :
           \/ qn \in owners
           \/ qn[1] = "testlabel" /\ \E o \in owners : IsSuffix(Tail(qn), o) }

RewritesInputs ==
    { a \in { [fn |-> "run_checks", meta |-> m, query |-> qn, limit |-> l] :
                m \in { Test2Meta, ChainMeta, ReplicaMeta, BackMeta, LoopMeta, DelegMeta },
                qn \in { TestLabelQuery, <<"b", "a", "foo", "com">>, <<"a", "foo", "com">>,
                         <<"b", "foo", "com">>, <<"x", "sub", "foo", "com">>,
                         <<"testlabel", "foo", "com">> },
                l \in 0..MaxLimit } :
        a.query \in ConcreteQueries(a.meta) }

InitRewrites ==
    /\ fn_args \in RewritesInputs
    /\ fn_result = <<>>
    /\ fn_pc = "called"
    /\ IdleGroot
    /\ IdleBaseline

\* run_checks reaches engine.resolve(concrete_q, qtype) with qtype "A"
CallResolve ==
    /\ fn_pc = "called"
    /\ fn_args.fn = "run_checks"
    /\ fn_result' = ResolveStart(load_dataset(fn_args.meta), fn_args.query, "A")
    /\ fn_pc' = "resolving"
    /\ UNCHANGED <<fn_args, igVars, ecVars, resolveVars, pathVars, lgVars>>

\* one iteration of the while loop of resolve
ResolveIteration ==
    /\ fn_pc = "resolving"
    /\ fn_result.queue # <<>>
    /\ fn_result.steps < StepLimit
    /\ fn_result' = Expand(load_dataset(fn_args.meta),
                           [fn_result EXCEPT !.queue = Tail(@), !.steps = @ + 1],
                           Head(fn_result.queue))
    /\ UNCHANGED <<fn_args, fn_pc, igVars, ecVars, resolveVars, pathVars, lgVars>>

\* resolve returns and the 'Rewrites' property is evaluated
CheckRewrites ==
    /\ fn_pc = "resolving"
    /\ fn_result.queue = <<>> \/ fn_result.steps >= StepLimit
    /\ fn_result' = [resolved |-> fn_result,
                     violation |-> RewritesViolation(fn_result, fn_args.limit)]
    /\ fn_pc' = "checked"
    /\ UNCHANGED <<fn_args, igVars, ecVars, resolveVars, pathVars, lgVars>>

NextRewrites == CallResolve \/ ResolveIteration \/ CheckRewrites

SpecRewrites == InitRewrites /\ [][NextRewrites]_vars

\* the steps of the resolution: <<from, to, 1 for a rewrite and 0 for a referral>>
ResolutionSteps(st) ==
    { <<p[1], p[2].target, 1>> :
        p \in { x \in st.visited \X st.graph : x[2].from = <<x[1][1], x[1][2]>> } }
    \cup { <<r[1], r[2], 0>> : r \in st.referrals }

MaxOf(S) == CHOOSE m \in S : \A n \in S : n <= m

\* the largest number of rewrites on a path without repeated states from n to
\* a final state, -1 when there is no such path
RECURSIVE MaxRewritesFrom(_, _, _)
MaxRewritesFrom(st, n, seen) ==
    MaxOf({ IF n \in st.finals THEN 0 ELSE -1 } \cup
          { LET rest == MaxRewritesFrom(st, e[2], seen \cup {n})
            IN IF rest < 0 THEN -1 ELSE rest + e[3] :
              e \in { s \in ResolutionSteps(st) : s[1] = n /\ s[2] \notin seen \cup {n} } })

MaxPathRewrites(st) == MaxOf({ MaxRewritesFrom(st, n, {}) : n \in st.entries })

\* C17: Rewrites bound -- run_checks reports a 'Rewrites (Count Exceeded)'
\* violation for the query exactly when some resolution path from a top name
\* server to a final state has more than Value rewrites; the 5-rewrite chain
\* of setup_test2 is reported with Value 4 and not with Value 5.
C17_RewritesBound ==
    (fn_pc = "checked" /\ fn_args.fn = "run_checks")
    => /\ fn_result.violation <=> (MaxPathRewrites(fn_result.resolved) > fn_args.limit)
       /\ (fn_args.meta = Test2Meta /\ fn_args.query = TestLabelQuery)
            => (fn_result.violation <=> fn_args.limit <= 4)

(***************************************************************************)
(* Groot_v1 step5 on the interpretation graph that step4 built for one EC. *)
(***************************************************************************)

\* the (node, has_rewrite) pairs the stack loop of _check_rewrite_blackholing
\* visits from the pairs in todo
RECURSIVE RewriteReach(_, _, _)
RewriteReach(edges, todo, seen) ==
    IF todo \subseteq seen THEN seen
    ELSE RewriteReach(edges,
                      { <<p[2].target_id, p[1][2] \/ p[2].action = "rewrite">> :
                          p \in { x \in (todo \ seen) \X SeqToSet(edges) :
                                    x[2].source_id = x[1][1] } },
                      seen \cup todo)

\* True when a visited pair has has_rewrite set on a node tagged NX
BlackholeFrom(nodes, edges, starts) ==
    \E p \in RewriteReach(edges, { <<n, FALSE>> : n \in starts }, {}) :
        p[2] /\ "NX" \in nodes[p[1]].tags

\* roots = nodes that are no edge target; without any, all_nodes[0]
check_rewrite_blackholing(nodes, edges) ==
    LET roots == { n \in 1..Len(nodes) : ~\E e \in SeqToSet(edges) : e.target_id = n }
    IN BlackholeFrom(nodes, edges, IF roots = {} /\ nodes # <<>> THEN {1} ELSE roots)

\* the sinks are the nodes that are no edge source; answers collects
\* str(node['answer']), which holds the outcome type only
check_answer_inconsistency(nodes, edges) ==
    LET sinks == { n \in 1..Len(nodes) : ~\E e \in SeqToSet(edges) : e.source_id = n }
    IN Cardinality({ nodes[n].answer : n \in sinks }) > 1

(***************************************************************************)
(* Groot_v1 step5: _check_rewrite_loop, a depth-first search that looks at *)
(* the cycle each edge into the recursion stack closes.                    *)
(***************************************************************************)

\* adj[u]: the edges that leave u, in the order of the edge list
AdjEdges(edges, u) == SelectSeq(edges, LAMBDA e : e.source_id = u)

\* dfs(u, path_nodes, path_edges) with the visited set it starts from;
\* DfsEdges is its loop over adj[u] from edge k on, path_nodes already holding
\* u; both return whether a rewrite cycle was found and the visited set
RECURSIVE DfsEdges(_, _, _, _, _, _)
DfsEdges(edges, u, k, path_nodes, path_edges, visited) ==
    IF k > Len(AdjEdges(edges, u)) THEN [found |-> FALSE, visited |-> visited]
    ELSE LET edge == AdjEdges(edges, u)[k]
             v == edge.target_id
             start_index == CHOOSE i \in 1..Len(path_nodes) :
                               path_nodes[i] = v /\ \A j \in 1..(i - 1) : path_nodes[j] # v
             cycle_edges == SubSeq(path_edges, start_index, Len(path_edges)) \o <<edge>>
             below == DfsEdges(edges, v, 1, Append(path_nodes, v), Append(path_edges, edge),
                               visited \cup {v})
         IN IF v \in SeqToSet(path_nodes)
            THEN IF \E i \in 1..Len(cycle_edges) : cycle_edges[i].action = "rewrite"
                 THEN [found |-> TRUE, visited |-> visited]
                 ELSE DfsEdges(edges, u, k + 1, path_nodes, path_edges, visited)
            ELSE IF v \notin visited
            THEN IF below.found THEN below
                 ELSE DfsEdges(edges, u, k + 1, path_nodes, path_edges, below.visited)
            ELSE DfsEdges(edges, u, k + 1, path_nodes, path_edges, visited)

\* the loop over node_ids: a search from every node not visited so far
RECURSIVE DfsFromNodes(_, _, _, _)
DfsFromNodes(node_ids, edges, k, visited) ==
    IF k > Len(node_ids) THEN FALSE
    ELSE IF node_ids[k] \in visited THEN DfsFromNodes(node_ids, edges, k + 1, visited)
    ELSE LET r == DfsEdges(edges, node_ids[k], 1, <<node_ids[k]>>, <<>>,
                           visited \cup {node_ids[k]})
         IN r.found \/ DfsFromNodes(node_ids, edges, k + 1, r.visited)

check_rewrite_loop(node_ids, edges) == DfsFromNodes(node_ids, edges, 1, {})

\* the nodes reached from the nodes of S by one or more edges
RECURSIVE ReachOver(_, _, _)
ReachOver(edges, S, seen) ==
    LET next == { e.target_id : e \in { x \in SeqToSet(edges) : x.source_id \in S } } \ seen
    IN IF next = {} THEN seen ELSE ReachOver(edges, next, seen \cup next)

\* some 'rewrite' edge lies on a directed cycle: its source is reached from
\* its target, or it is a self-loop
HasRewriteCycle(edges) ==
    \E e \in SeqToSet(edges) :
        /\ e.action = "rewrite"
        /\ e.source_id \in ({e.target_id} \cup ReachOver(edges, {e.target_id}, {}))

QCOM == <<"q", "com">>
RCOM == <<"r", "com">>
ADDR2 == <<"2.2.2.2">>

ZoneVCom == [origin |-> COM, records |-> << RR(COM, "SOA", SOADATA), RR(QCOM, "A", ADDR) >>]
ZoneVQ == [origin |-> QCOM, records |-> << RR(QCOM, "CNAME", RCOM) >>]
ZoneVR == [origin |-> RCOM, records |-> << RR(RCOM, "CNAME", QCOM) >>]
ZoneVQ2 == [origin |-> QCOM, records |-> << RR(QCOM, "A", ADDR2) >>]

\* ns1. answers q.com.; ns2. rewrites q.com. to r.com. and back
ConfigBack(theta) ==
    [Theta |-> theta,
     Gamma |-> (NS1 :> <<COM>>) @@ (NS2 :> <<QCOM, RCOM>>),
     zone_map |-> (COM :> ZoneVCom) @@ (QCOM :> ZoneVQ) @@ (RCOM :> ZoneVR),
     zone_keys |-> <<COM, QCOM, RCOM>>]

\* ns1. and ns2. answer q.com. with different addresses
ConfigTwoAnswers ==
    [Theta |-> <<NS1, NS2>>,
     Gamma |-> (NS1 :> <<COM>>) @@ (NS2 :> <<QCOM>>),
     zone_map |-> (COM :> ZoneVCom) @@ (QCOM :> ZoneVQ2),
     zone_keys |-> <<COM, QCOM>>]

VerifyInputs ==
    IGInputs \cup
    { [cfg |-> c, query |-> qn, types |-> ts] :
        c \in { ConfigBack(<<NS1, NS2>>), ConfigBack(<<NS2, NS1>>), ConfigTwoAnswers },
        qn \in { QCOM, RCOM, <<"z", "com">> }, ts \in TypeLists }

InitVerify ==
    \E inp \in VerifyInputs :
        /\ dns_config = inp.cfg
        /\ ec = [query |-> inp.query, types |-> inp.types]
        /\ graph_nodes = <<>>
        /\ graph_edges = <<>>
        /\ visited_states = {}
        /\ worklist = InitialWorklist(inp.cfg, [query |-> inp.query, types |-> inp.types])
        /\ node_depth = <<>>
        /\ last_pop = "none"
        /\ IdleEC
        /\ IdleBaseline
        /\ fn_args = [fn |-> "verify_properties"]
        /\ fn_result = <<>>
        /\ fn_pc = "building"

\* _check_lame_delegation: some node carries the tag REFUSED
check_lame_delegation(nodes) == \E n \in 1..Len(nodes) : "REFUSED" \in nodes[n].tags

\* _check_delegation_inconsistency: an edge from a node tagged REF to a node
\* tagged ANS whose record sets differ
check_delegation_inconsistency(nodes, edges) ==
    \E e \in SeqToSet(edges) :
        /\ "REF" \in nodes[e.source_id].tags
        /\ "ANS" \in nodes[e.target_id].tags
        /\ SeqToSet(nodes[e.source_id].records) # SeqToSet(nodes[e.target_id].records)

\* the ViolationRecord dictionaries of lines 41-87
ViolationRecord(type, details, query) == [type |-> type, details |-> details, query |-> query]

\* the loop over default_props for one graph; ec_id stands for graph['ec_id']
verify_properties(nodes, edges, ec_id) ==
    LET node_ids == [i \in 1..Len(nodes) |-> i]
        found == << <<check_rewrite_loop(node_ids, edges),
                      ViolationRecord("Rewrite Loop", "Cycle with rewrite detected", ec_id)>>,
                    <<check_rewrite_blackholing(nodes, edges),
                      ViolationRecord("Rewrite Blackholing", "Rewritten path ends in NXDOMAIN",
                                      ec_id)>>,
                    <<check_lame_delegation(nodes),
                      ViolationRecord("Lame Delegation", "Node returned REFUSED", ec_id)>>,
                    <<check_delegation_inconsistency(nodes, edges),
                      ViolationRecord("Delegation Inconsistency",
                                      "Record mismatch between parent and child", ec_id)>>,
                    <<check_answer_inconsistency(nodes, edges),
                      ViolationRecord("Answer Inconsistency",
                                      "Different sink nodes return different answers", ec_id)>> >>
        hits == SelectSeq(found, LAMBDA f : f[1])
    IN [i \in 1..Len(hits) |-> hits[i][2]]

\* record.get(key, default)
DictGet(record, key, default) == IF key \in DOMAIN record THEN record[key] ELSE default

\* generate_final_report: the statistics and the log entries of the report
generate_final_report(verification_results) ==
    LET failing == SelectSeq(verification_results,
                             LAMBDA r : DictGet(r, "has_violation", FALSE))
    IN [total_ecs |-> Len(verification_results),
        passed |-> Len(verification_results) - Len(failing),
        failed |-> Len(failing),
        violation_logs |->
            [i \in 1..Len(failing) |->
                [property |-> DictGet(failing[i], "property", "Unknown Property"),
                 query |-> DictGet(failing[i], "query", "Unknown Query"),
                 reason |-> DictGet(failing[i], "reason", "Unknown Reason")]]]

\* verify_properties on the finished graph
CallVerifyProperties ==
    /\ fn_pc = "building"
    /\ worklist = <<>>
    /\ fn_result' = [rewrite_blackholing |-> check_rewrite_blackholing(graph_nodes, graph_edges),
                     answer_inconsistency |-> check_answer_inconsistency(graph_nodes, graph_edges),
                     rewrite_loop |-> check_rewrite_loop([i \in 1..Len(graph_nodes) |-> i],
                                                         graph_edges),
                     violations |-> verify_properties(graph_nodes, graph_edges, ec)]
    /\ fn_pc' = "verified"
    /\ UNCHANGED <<fn_args, igVars, ecVars, resolveVars, pathVars, lgVars>>

\* run.py step 6: generate_final_report(violations_raw)
CallGenerateFinalReport ==
    /\ fn_pc = "verified"
    /\ fn_args.fn = "verify_properties"
    /\ fn_result' = [violations |-> fn_result.violations,
                     final_report |-> generate_final_report(fn_result.violations)]
    /\ fn_pc' = "reported"
    /\ UNCHANGED <<fn_args, igVars, ecVars, resolveVars, pathVars, lgVars>>

NextVerify == NextIG \/ CallVerifyProperties \/ CallGenerateFinalReport

SpecVerify == InitVerify /\ [][NextVerify]_vars

Verified == fn_pc = "verified" /\ fn_args.fn = "verify_properties"

\* C18: rewrite blackholing -- _check_rewrite_blackholing returns True exactly
\* when the graph has a path that starts at an entry node, takes at least one
\* 'rewrite' edge and ends at a node tagged NX, also when an entry node has an
\* incoming edge.
C18_RewriteBlackholing ==
    Verified
    => (fn_result.rewrite_blackholing <=> BlackholeFrom(graph_nodes, graph_edges, EntryNodes))

\* the answer set of a node: {type, rdata} of the records it returned
AnswerSet(node) == { <<r.type, r.rdata>> : r \in SeqToSet(node.records) }

SinkNodes ==
    { n \in 1..Len(graph_nodes) : ~\E e \in SeqToSet(graph_edges) : e.source_id = n }

\* C19: response consistency -- _check_answer_inconsistency returns True
\* exactly when two sink nodes (nodes without outgoing edges) have different
\* answer sets.
C19_AnswerInconsistency ==
    Verified
    => (fn_result.answer_inconsistency
          <=> \E m, n \in SinkNodes : AnswerSet(graph_nodes[m]) # AnswerSet(graph_nodes[n]))

(***************************************************************************)
(* Baseline PropertyChecker.run_structural_checks with the property        *)
(* DelegationConsistency on the zones of a configuration.                  *)
(***************************************************************************)

\* the (child_domain, parent zone domain) pairs of the violations recorded:
\* delegation_keys are the keys of delegations (owners of NS records off the
\* apex and of address records), delegation_ns is delegations[d]['ns']
check_delegation_consistency_structural(zones) ==
    LET delegation_ns(p_zone, d) ==
            { rec \in p_zone.records :
                rec.type = "NS" /\ rec.domain = d /\ rec.domain # p_zone.domain }
        delegation_keys(p_zone) ==
            { rec.domain : rec \in { r \in p_zone.records :
                                       \/ r.type = "NS" /\ r.domain # p_zone.domain
                                       \/ r.type \in {"A", "AAAA"} } }
        child_ns(c_zone) ==
            { r \in c_zone.records : r.type = "NS" /\ r.domain = c_zone.domain }
    IN  { <<x[2].domain, x[1].domain>> :
            x \in { y \in zones \X zones :
                      /\ y[2].domain \in delegation_keys(y[1])
                      /\ delegation_ns(y[1], y[2].domain) # child_ns(y[2]) } }

NsRecords(d, targets) == { ResourceRecord(d, "NS", t) : t \in targets }

NsTargetSets == { {}, {NS3}, {NS4}, {NS3, NS4} }

\* com. with the given NS targets at sub.com. and optional other records
BParentWith(targets, extra) ==
    Zone(BCOM, { ResourceRecord(BCOM, "SOA", NS1), ResourceRecord(BCOM, "NS", NS1) }
               \cup NsRecords(BSUB, targets) \cup extra)

BChildWith(targets) ==
    Zone(BSUB, { ResourceRecord(BSUB, "SOA", NS3) } \cup NsRecords(BSUB, targets))

ParentExtras ==
    { {}, { ResourceRecord(BSUB, "A", ADDR) }, { ResourceRecord(<<"com", "www">>, "A", ADDR) } }

DelegationInputs ==
    { [fn |-> "run_structural_checks", zones |-> { BParentWith(pt, ex), BChildWith(ct) } \cup other] :
        pt \in NsTargetSets, ct \in NsTargetSets, ex \in ParentExtras,
        other \in { {}, { BZoneOrg } } }

InitDelegation ==
    /\ fn_args \in DelegationInputs
    /\ fn_result = <<>>
    /\ fn_pc = "called"
    /\ IdleGroot
    /\ IdleBaseline

CallStructuralChecks ==
    /\ fn_pc = "called"
    /\ fn_args.fn = "run_structural_checks"
    /\ fn_result' = [violations |-> check_delegation_consistency_structural(fn_args.zones)]
    /\ fn_pc' = "returned"
    /\ UNCHANGED <<fn_args, igVars, ecVars, resolveVars, pathVars, lgVars>>

NextDelegation == CallStructuralChecks

SpecDelegation == InitDelegation /\ [][NextDelegation]_vars

\* the NS targets a zone holds at a name
NsTargetsAt(zone, d) == { r.value : r \in { x \in zone.records : x.type = "NS" /\ x.domain = d } }

\* the zone with its NS records at d replaced by NS records to the targets
WithNsAt(zone, d, targets) ==
    Zone(zone.domain,
         { r \in zone.records : ~(r.type = "NS" /\ r.domain = d) } \cup NsRecords(d, targets))

\* C20: structural delegation consistency -- for a zone z whose origin lies
\* below the origin of another zone p, a violation is recorded for z exactly
\* when the NS targets at z's origin in p differ from those in z, also when p
\* has no NS record there; the verdict is the same with the two sets swapped.
C20_DelegationConsistency ==
    (fn_pc = "returned" /\ fn_args.fn = "run_structural_checks")
    => \A p, z \in fn_args.zones :
         (is_prefix(z.domain, p.domain) /\ z.domain # p.domain)
         => /\ (<<z.domain, p.domain>> \in fn_result.violations)
                 <=> (NsTargetsAt(p, z.domain) # NsTargetsAt(z, z.domain))
            /\ (<<z.domain, p.domain>> \in fn_result.violations)
                 <=> (<<z.domain, p.domain>> \in
                        check_delegation_consistency_structural(
                          { WithNsAt(p, z.domain, NsTargetsAt(z, z.domain)),
                            WithNsAt(z, z.domain, NsTargetsAt(p, z.domain)) }))

(***************************************************************************)
(* AutoGen run_checks, property NameserverContact: the names in            *)
(* external_ns_contacted are tested with str.endswith against Value.       *)
(***************************************************************************)

\* the pairs <<l, m>> of labels in use where m is a proper suffix of the
\* characters of l
ProperLabelSuffixes == { <<"badfoo", "foo">>, <<"foo", "oo">>, <<"badexample", "example">> }

\* name.endswith(suffix) for two dot-terminated names: the characters of suffix
\* end name when its labels end name's labels, or when its leftmost label ends
\* the characters of the label at that position and the labels after it agree
str_endswith(name, suffix) ==
    \/ IsSuffix(suffix, name)
    \/ /\ suffix # <<>>
       /\ Len(suffix) <= Len(name)
       /\ IsSuffix(Tail(suffix), name)
       /\ <<name[Len(name) - Len(suffix) + 1], suffix[1]>> \in ProperLabelSuffixes

\* the 'NameserverContact' branch: one result per ext of external_ns that ends
\* with no element of allowed
NameserverContactIssues(external_ns, allowed) ==
    SelectSeq(external_ns, LAMBDA ext : ~\E a \in allowed : str_endswith(ext, a))

NSOTHER == <<"ns", "other", "net">>
NSEXT == <<"ns", "ext", "org">>
NSBADFOO == <<"ns", "badfoo", "com">>

\* foo.com. at ns1.foo.com. delegates sub to a hosted and to an unhosted
\* server, and bad to an unhosted server
ContactMeta ==
    [TopNameServers |-> <<NSFOO>>,
     ZoneFiles |->
       << ZoneFile(Dotted(FOO), NSFOO, Dotted(FOO),
                   << Record(FOO, "SOA", NSFOO),
                      Record(<<"sub", "foo", "com">>, "NS", NSOTHER),
                      Record(<<"sub", "foo", "com">>, "NS", NSEXT),
                      Record(<<"bad", "foo", "com">>, "NS", NSBADFOO),
                      Record(<<"www", "foo", "com">>, "A", ADDR) >>),
          ZoneFile(Dotted(<<"sub", "foo", "com">>), NSOTHER, Dotted(<<"sub", "foo", "com">>),
                   << Record(<<"x", "sub", "foo", "com">>, "A", ADDR) >>) >>]

AllowedSuffixes == { <<"com">>, <<"foo", "com">>, <<"net">>, <<"org">> }

ContactInputs ==
    { [fn |-> "run_checks", meta |-> ContactMeta, query |-> qn, allowed |-> al] :
        qn \in { <<"x", "sub", "foo", "com">>, <<"www", "foo", "com">>,
                 <<"bad", "foo", "com">>, <<"testlabel", "foo", "com">> },
        al \in SUBSET AllowedSuffixes }

InitContact ==
    /\ fn_args \in ContactInputs
    /\ fn_result = <<>>
    /\ fn_pc = "called"
    /\ IdleGroot
    /\ IdleBaseline

\* resolve returns and the 'NameserverContact' property is evaluated
CheckNameserverContact ==
    /\ fn_pc = "resolving"
    /\ fn_result.queue = <<>> \/ fn_result.steps >= StepLimit
    /\ fn_result' = [resolved |-> fn_result,
                     issues |-> NameserverContactIssues(fn_result.external_ns_contacted,
                                                        fn_args.allowed)]
    /\ fn_pc' = "contact_checked"
    /\ UNCHANGED <<fn_args, igVars, ecVars, resolveVars, pathVars, lgVars>>

NextContact == CallResolve \/ ResolveIteration \/ CheckNameserverContact

SpecContact == InitContact /\ [][NextContact]_vars

\* the servers the resolution has contacted: every state it has dequeued
ContactedServers(st) == { n[1] : n \in st.visited \ SeqToSet(st.queue) }

\* C21: nameserver contact -- run_checks reports a 'Name Server Contact'
\* violation for a query exactly when the resolution contacts a server whose
\* name is neither equal to nor a label-wise descendant of an allowed suffix,
\* whether or not that server hosts a zone.
C21_NameserverContact ==
    fn_pc = "contact_checked"
    => ((fn_result.issues # <<>>)
          <=> \E s \in ContactedServers(fn_result.resolved) :
                \A a \in fn_args.allowed : ~IsSuffix(a, s))

(***************************************************************************)
(* AutoGen run_checks: the ECs of the label graph and the job scope.       *)
(***************************************************************************)

\* an EC string: the domain name, or "~{}." in front of it ("~{}." at the root)
AgEC(alpha, labels) == [alpha |-> alpha, labels |-> labels]

\* build_label_graph: one node per suffix of an owner name and of a DNAME
\* target; the record owners are marked
build_label_graph(zones) ==
    LET recs == UNION { SeqToSet(zones[i].records) : i \in 1..Len(zones) }
        owners == { r.name : r \in recs }
        ends == owners \cup { r.rdata : r \in { x \in recs : x.rtype = "DNAME" } }
    IN [nodes |-> UNION { { StripLeft(n, i) : i \in 0..Len(n) } : n \in ends } \cup { <<>> },
        owners |-> owners]

\* generate_ecs: the name of every owner node and of the root, and the alpha
\* name below every node; list(set(ecs)) drops the duplicates
generate_ecs(graph) ==
    { AgEC(FALSE, n) : n \in graph.owners \cup { <<>> } }
    \cup { AgEC(TRUE, n) : n \in graph.nodes }

\* clean_ec = e_c.replace("~{}.", "") tested against the job: the alpha EC of
\* the root becomes the empty string, which equals and ends with no domain
InScope(e_c, domain, is_sub) ==
    /\ ~(e_c.alpha /\ e_c.labels = <<>>)
    /\ IF is_sub THEN str_endswith(e_c.labels, domain) ELSE e_c.labels = domain

JobDomains ==
    { <<>>, <<"com">>, FOO, <<"oo", "com">>, <<"sub", "foo", "com">>, <<"www", "foo", "com">>,
      <<"a", "foo", "com">>, <<"x", "sub", "foo", "com">>, <<"net">> }

ScopeInputs ==
    { [fn |-> "job_scope", meta |-> m, Domain |-> d, SubDomain |-> s] :
        m \in { ContactMeta, ChainMeta, DelegMeta }, d \in JobDomains, s \in BOOLEAN }

InitScope ==
    /\ fn_args \in ScopeInputs
    /\ fn_result = <<>>
    /\ fn_pc = "called"
    /\ IdleGroot
    /\ IdleBaseline

\* run_checks up to the loop over the jobs
CallGenerateEcs ==
    /\ fn_pc = "called"
    /\ fn_args.fn = "job_scope"
    /\ fn_result' = [ecs |-> generate_ecs(build_label_graph(load_dataset(fn_args.meta).zones))]
    /\ fn_pc' = "ecs"
    /\ UNCHANGED <<fn_args, igVars, ecVars, resolveVars, pathVars, lgVars>>

\* the loop that fills target_ecs for the job
SelectTargetEcs ==
    /\ fn_pc = "ecs"
    /\ fn_result' = [ecs |-> fn_result.ecs,
                     target_ecs |-> { e_c \in fn_result.ecs :
                                        InScope(e_c, fn_args.Domain, fn_args.SubDomain) }]
    /\ fn_pc' = "scoped"
    /\ UNCHANGED <<fn_args, igVars, ecVars, resolveVars, pathVars, lgVars>>

NextScope == CallGenerateEcs \/ SelectTargetEcs

SpecScope == InitScope /\ [][NextScope]_vars

\* the name an EC stands for: the alpha label in front of the labels
EcDomain(e_c) == IF e_c.alpha THEN <<"~{}">> \o e_c.labels ELSE e_c.labels

\* C22: job scope -- an EC is evaluated for a job exactly when its domain
\* equals the job's Domain, or SubDomain is set and its domain is a label-wise
\* descendant of Domain; an alpha EC below p is not equal to p.
C22_JobScope ==
    fn_pc = "scoped"
    => \A e_c \in fn_result.ecs :
         (e_c \in fn_result.target_ecs)
           <=> \/ EcDomain(e_c) = fn_args.Domain
               \/ fn_args.SubDomain /\ IsSuffix(fn_args.Domain, EcDomain(e_c))

(***************************************************************************)
(* Baseline main, step 6: printing checker.violations.                     *)
(***************************************************************************)

MaxViolations == 3

\* the property names, str(subject) values and reasons in use, each ascending
\* in Python's string order
PropertyNames == <<"NameserverContact", "Rewrites">>
SubjectStrings == <<"Query(a.com., A)", "Query(b.com., A)">>
ReasonStrings == <<"reason 1", "reason 2">>

Violation(prop_name, subject, reason) ==
    [prop_name |-> prop_name, subject |-> subject, reason |-> reason]

\* sorted(list(set(violations)), key=lambda x: str(x[0])) for one iteration
\* order listed of the set: a stable sort on the subject alone
unique_violations(listed) ==
    LET before(i) == { j \in 1..Len(listed) :
                         \/ RankIn(SubjectStrings, listed[j].subject)
                              < RankIn(SubjectStrings, listed[i].subject)
                         \/ (listed[j].subject = listed[i].subject /\ j < i) }
    IN [k \in 1..Len(listed) |->
          listed[CHOOSE i \in 1..Len(listed) : Cardinality(before(i)) = k - 1]]

\* the violations of one property
OfProperty(violations, prop_name) == { v \in violations : v.prop_name = prop_name }

ReportInputs ==
    { [fn |-> "main", violations |-> V] :
        V \in { W \in SUBSET { Violation(p, s, r) : p \in SeqToSet(PropertyNames),
                                                    s \in SeqToSet(SubjectStrings),
                                                    r \in SeqToSet(ReasonStrings) } :
                  Cardinality(W) <= MaxViolations } }

InitReport ==
    /\ fn_args \in ReportInputs
    /\ fn_result = <<>>
    /\ fn_pc = "checked"
    /\ IdleGroot
    /\ IdleBaseline

\* the print loop: the properties ascending by name, the violations of each
\* in the order the sort leaves the iteration order of the set in
PrintViolations ==
    /\ fn_pc = "checked"
    /\ fn_args.fn = "main"
    /\ \E o1 \in Orderings(OfProperty(fn_args.violations, PropertyNames[1])),
          o2 \in Orderings(OfProperty(fn_args.violations, PropertyNames[2])) :
         fn_result' = [printed |-> unique_violations(o1) \o unique_violations(o2)]
    /\ fn_pc' = "printed"
    /\ UNCHANGED <<fn_args, igVars, ecVars, resolveVars, pathVars, lgVars>>

NextReport == PrintViolations

SpecReport == InitReport /\ [][NextReport]_vars

\* a comes before b in the order on (property, subject, reason)
LexBefore(a, b) ==
    \/ RankIn(PropertyNames, a.prop_name) < RankIn(PropertyNames, b.prop_name)
    \/ /\ a.prop_name = b.prop_name
       /\ \/ RankIn(SubjectStrings, a.subject) < RankIn(SubjectStrings, b.subject)
          \/ /\ a.subject = b.subject
             /\ RankIn(ReasonStrings, a.reason) < RankIn(ReasonStrings, b.reason)

\* C23: deterministic report order -- the printed sequence of violations is
\* the set of violations sorted lexicographically by (property, subject,
\* reason), whatever the iteration order of the sets.
C23_ReportOrder ==
    (fn_pc = "printed" /\ fn_args.fn = "main")
    => /\ SeqToSet(fn_result.printed) = fn_args.violations
       /\ \A i, j \in 1..Len(fn_result.printed) :
            i < j => LexBefore(fn_result.printed[i], fn_result.printed[j])

(***************************************************************************)
(* AutoGen GrootEngine.resolve on a configuration and on the same          *)
(* configuration with its owner, query and CNAME target names in lower     *)
(* case.                                                                   *)
(***************************************************************************)

\* the metadata with every owner name and every CNAME target lowered
Folded(meta) ==
    [meta EXCEPT !.ZoneFiles =
       [i \in 1..Len(meta.ZoneFiles) |->
          [meta.ZoneFiles[i] EXCEPT !.records =
             [k \in 1..Len(meta.ZoneFiles[i].records) |->
                LET r == meta.ZoneFiles[i].records[k]
                IN Record(r.name, r.rtype,
                          IF r.rtype = "CNAME" THEN lower(r.rdata) ELSE r.rdata)]]]]

\* one pass of "while queue" of resolve, nothing when the loop has ended
Iterate(engine, st) ==
    IF st.queue = <<>> \/ st.steps >= StepLimit THEN st
    ELSE Expand(engine, [st EXCEPT !.queue = Tail(@), !.steps = @ + 1], Head(st.queue))

\* a CNAME whose target is written with an upper-case label
CaseCnameMeta ==
    [TopNameServers |-> <<NS1>>,
     ZoneFiles |->
       << ZoneFile(Dotted(FOO), NS1, Dotted(FOO),
                   << Record(<<"A", "Foo", "com">>, "CNAME", <<"B", "foo", "com">>),
                      Record(<<"b", "foo", "com">>, "A", ADDR) >>) >>]

\* a CNAME whose target spells the zone name with an upper-case label
CaseZoneMeta ==
    [TopNameServers |-> <<NS1>>,
     ZoneFiles |->
       << ZoneFile(Dotted(FOO), NS1, Dotted(FOO),
                   << Record(<<"a", "foo", "com">>, "CNAME", <<"b", "Foo", "com">>),
                      Record(<<"b", "foo", "com">>, "A", ADDR) >>) >>]

\* a wildcard CNAME with an upper-case target
CaseWildMeta ==
    [TopNameServers |-> <<NS1>>,
     ZoneFiles |->
       << ZoneFile(Dotted(FOO), NS1, Dotted(FOO),
                   << Record(<<"*", "foo", "com">>, "CNAME", <<"B", "foo", "com">>),
                      Record(<<"b", "foo", "com">>, "A", ADDR) >>) >>]

\* upper-case letters in the origin and in owner names only
CaseOwnerMeta ==
    [TopNameServers |-> <<NS1>>,
     ZoneFiles |->
       << ZoneFile(Dotted(<<"Foo", "COM">>), NS1, Dotted(<<"Foo", "COM">>),
                   << Record(<<"A", "Foo", "COM">>, "CNAME", <<"b", "foo", "com">>),
                      Record(<<"B", "Foo", "COM">>, "A", ADDR) >>) >>]

CaseInputs ==
    { [fn |-> "resolve", meta |-> m, query |-> qn] :
        m \in { CaseCnameMeta, CaseZoneMeta, CaseWildMeta, CaseOwnerMeta,
                ChainMeta, LoopMeta, DelegMeta },
        qn \in { <<"a", "foo", "com">>, <<"A", "Foo", "com">>, <<"x", "foo", "com">>,
                 <<"b", "foo", "com">>, <<"B", "foo", "COM">> } }

InitCase ==
    /\ fn_args \in CaseInputs
    /\ fn_result = <<>>
    /\ fn_pc = "called"
    /\ IdleGroot
    /\ IdleBaseline

\* resolve is entered on the configuration and on the folded one
CallResolveBoth ==
    /\ fn_pc = "called"
    /\ fn_args.fn = "resolve"
    /\ fn_result' = [original |-> ResolveStart(load_dataset(fn_args.meta), fn_args.query, "A"),
                     folded |-> ResolveStart(load_dataset(Folded(fn_args.meta)),
                                             lower(fn_args.query), "A")]
    /\ fn_pc' = "resolving_both"
    /\ UNCHANGED <<fn_args, igVars, ecVars, resolveVars, pathVars, lgVars>>

\* each run that has not ended makes one pass of its loop
IterateBoth ==
    /\ fn_pc = "resolving_both"
    /\ \E run \in { fn_result.original, fn_result.folded } :
         run.queue # <<>> /\ run.steps < StepLimit
    /\ fn_result' = [original |-> Iterate(load_dataset(fn_args.meta), fn_result.original),
                     folded |-> Iterate(load_dataset(Folded(fn_args.meta)), fn_result.folded)]
    /\ UNCHANGED <<fn_args, fn_pc, igVars, ecVars, resolveVars, pathVars, lgVars>>

\* both runs return
ReturnBoth ==
    /\ fn_pc = "resolving_both"
    /\ \A run \in { fn_result.original, fn_result.folded } :
         run.queue = <<>> \/ run.steps >= StepLimit
    /\ fn_pc' = "returned_both"
    /\ UNCHANGED <<fn_args, fn_result, igVars, ecVars, resolveVars, pathVars, lgVars>>

NextCase == CallResolveBoth \/ IterateBoth \/ ReturnBoth

SpecCase == InitCase /\ [][NextCase]_vars

\* C24: label case insensitivity -- resolve returns the same final states for
\* a configuration and query as for the same configuration and query with
\* every owner name, query name and CNAME target folded to lower case.
C24_CaseInsensitive ==
    fn_pc = "returned_both"
    => fn_result.original.final_states = fn_result.folded.final_states

(***************************************************************************)
(* Groot_v1 step3: the length check of the depth-first search.             *)
(***************************************************************************)

\* the labels of a path, the root label that starts it not counted
PathLabels(len) == len - 1

\* C25: EC length bound -- a DFS branch is aborted exactly when its path has
\* more than MAX_DNS_LENGTH = 20 labels, the root label not counted: a path
\* of at most 20 labels gets its ECs, a longer one gets none.
C25_LengthBound ==
    /\ last_dfs.fate = "long" => PathLabels(last_dfs.len) > MAX_DNS_LENGTH
    /\ last_dfs.fate = "visit" => PathLabels(last_dfs.len) <= MAX_DNS_LENGTH

(***************************************************************************)
(* Groot_v1 step2: construct_label_graph on a record list and on the list  *)
(* with one record repeated.                                               *)
(***************************************************************************)

MaxRecords == 2

TrieRecords ==
    { RR(COM, "SOA", SOADATA), RR(<<"a", "com">>, "DNAME", <<"b", "com">>),
      RR(<<"w", "b", "com">>, "A", ADDR), RR(<<"a", "com">>, "A", ADDR),
      RR(<<"alpha", "com">>, "A", ADDR) }

\* records with a copy of records[i] put in front of position j
Repeated(records, i, j) ==
    SubSeq(records, 1, j - 1) \o <<records[i]>> \o SubSeq(records, j, Len(records))

TrieInputs ==
    { [fn |-> "construct_label_graph", records |-> rs, i |-> p[1], j |-> p[2]] :
        rs \in UNION { [1..n -> TrieRecords] : n \in 1..MaxRecords },
        p \in { q \in (1..MaxRecords) \X (1..(MaxRecords + 1)) : q[1] < q[2] } }

InitTrie ==
    /\ fn_args \in { a \in TrieInputs : a.j <= Len(a.records) + 1 }
    /\ fn_result = <<>>
    /\ fn_pc = "called"
    /\ IdleGroot
    /\ IdleBaseline

CallConstructLabelGraph ==
    /\ fn_pc = "called"
    /\ fn_args.fn = "construct_label_graph"
    /\ fn_result' = [once |-> construct_label_graph(fn_args.records),
                     twice |-> construct_label_graph(
                                 Repeated(fn_args.records, fn_args.i, fn_args.j))]
    /\ fn_pc' = "returned"
    /\ UNCHANGED <<fn_args, igVars, ecVars, resolveVars, pathVars, lgVars>>

NextTrie == CallConstructLabelGraph

SpecTrie == InitTrie /\ [][NextTrie]_vars

\* the labels on the child edges from the root to a node
RECURSIVE LabelPath(_, _)
LabelPath(lg, n) ==
    IF n = root_id THEN <<>>
    ELSE LET e == lg.edges[CHOOSE k \in 1..Len(lg.edges) :
                     lg.edges[k].edge_type = "child" /\ lg.edges[k].target_id = n]
         IN Append(LabelPath(lg, e.source_id), e.label)

\* C26: idempotence of trie construction -- repeating a record of the list
\* (a DNAME record included) leaves the nodes and edges unchanged, and the
\* label graph has one node per distinct label path and no duplicate edge.
C26_TrieIdempotent ==
    (fn_pc = "returned" /\ fn_args.fn = "construct_label_graph")
    => /\ fn_result.once = fn_result.twice
       /\ \A m, n \in DOMAIN fn_result.once.nodes :
            LabelPath(fn_result.once, m) = LabelPath(fn_result.once, n) => m = n
       /\ \A k, l \in 1..Len(fn_result.once.edges) :
            fn_result.once.edges[k] = fn_result.once.edges[l] => k = l

\* the first conjunct alone: the repeated record changes nothing
C26_RepeatUnchanged ==
    (fn_pc = "returned" /\ fn_args.fn = "construct_label_graph")
    => fn_result.once = fn_result.twice

(***************************************************************************)
(* _check_rewrite_loop on graphs given as a node list and an edge list.    *)
(***************************************************************************)

MaxLoopEdges == 3

LoopNodeIds == <<1, 2, 3>>

LoopEdges ==
    { Edge(a, b, act) : a \in SeqToSet(LoopNodeIds), b \in SeqToSet(LoopNodeIds),
                        act \in { "rewrite", "referral" } }

LoopInputs ==
    { [fn |-> "check_rewrite_loop", edges |-> es] :
        es \in UNION { [1..n -> LoopEdges] : n \in 0..MaxLoopEdges } }

InitLoopCheck ==
    /\ fn_args \in LoopInputs
    /\ fn_result = <<>>
    /\ fn_pc = "called"
    /\ IdleGroot
    /\ IdleBaseline

CallCheckRewriteLoop ==
    /\ fn_pc = "called"
    /\ fn_args.fn = "check_rewrite_loop"
    /\ fn_result' = [rewrite_loop |-> check_rewrite_loop(LoopNodeIds, fn_args.edges)]
    /\ fn_pc' = "returned"
    /\ UNCHANGED <<fn_args, igVars, ecVars, resolveVars, pathVars, lgVars>>

NextLoopCheck == CallCheckRewriteLoop

SpecLoopCheck == InitLoopCheck /\ [][NextLoopCheck]_vars

LoopChecked == fn_pc = "returned" /\ fn_args.fn = "check_rewrite_loop"

\* C27: rewrite-loop detection -- for every graph, _check_rewrite_loop
\* returns True exactly when the graph has a directed cycle with at least one
\* 'rewrite' edge, whatever the order of its nodes and edges, also when a
\* node of that cycle lies on a rewrite-free cycle that is searched first.
C27_RewriteLoop ==
    LoopChecked => (fn_result.rewrite_loop <=> HasRewriteCycle(fn_args.edges))

\* one direction alone: a True result means there is such a cycle
RewriteLoopSound ==
    LoopChecked => (fn_result.rewrite_loop => HasRewriteCycle(fn_args.edges))

\* on the graphs that generate_interpretation_graphs builds for the
\* configurations explored here, the result and the cycle test agree
RewriteLoopOnBuiltGraphs ==
    Verified => (fn_result.rewrite_loop <=> HasRewriteCycle(graph_edges))

(***************************************************************************)
(* Groot_v1 step3: the shape of the emitted domain sequences.              *)
(***************************************************************************)

\* the strings that step3 writes for an alpha segment of this label graph
IsAlphaString(s) == \E C \in SiblingSets : s = AlphaString(C)

\* positions of the alpha segments of a domain sequence, 1 being the leftmost
AlphaPositions(sequence) == { i \in 1..Len(sequence) : IsAlphaString(sequence[i]) }

\* C28: alpha position -- every emitted EC domain has at most one alpha
\* segment and that segment is the leftmost label, for every set of owner
\* names, also those with the literal label 'alpha'.
C28_AlphaLeftmost ==
    \A i \in 1..Len(ec_list) : AlphaPositions(ec_list[i].domain_sequence) \subseteq {1}

\* the same for the configurations without the literal label 'alpha'
AlphaLeftmostPlainOwners ==
    dns_config # OneZoneConfig(ZoneAlpha) => C28_AlphaLeftmost

\* EC ids are pairwise distinct
DistinctEcIds ==
    \A i, j \in 1..Len(ec_list) : i # j => ec_list[i].ec_id # ec_list[j].ec_id

\* C29: no duplicate ECs -- the EC list never holds two ECs with the same
\* domain sequence and the same query type, for every label graph, also with
\* dname edges; and the EC ids are pairwise distinct.
C29_NoDuplicateECs ==
    /\ \A i, j \in 1..Len(ec_list) :
         i # j => \/ ec_list[i].domain_sequence # ec_list[j].domain_sequence
                  \/ ec_list[i].query_types # ec_list[j].query_types
    /\ DistinctEcIds

\* the same for the label graphs without a dname edge and without an owner
\* label 'alpha'
NoDuplicateECsWithoutDname ==
    (/\ \A k \in 1..Len(label_graph.edges) : label_graph.edges[k].edge_type # "dname"
     /\ dns_config # OneZoneConfig(ZoneAlpha))
        => C29_NoDuplicateECs

(***************************************************************************)
(* Groot_v1 run.py steps 5 and 6: the violations of verify_properties in   *)
(* the report of generate_final_report.                                    *)
(***************************************************************************)

Reported == fn_pc = "reported" /\ fn_args.fn = "verify_properties"

\* C30: violations reach the report -- the report's Failed count equals the
\* number of violation records, each violation appears as a log line, and
\* Passed + Failed = Total ECs.
C30_ViolationsReported ==
    Reported =>
        LET report == fn_result.final_report
        IN /\ report.failed = Len(fn_result.violations)
           /\ \A i \in 1..Len(fn_result.violations) :
                \E k \in 1..Len(report.violation_logs) :
                    /\ report.violation_logs[k].property = fn_result.violations[i].type
                    /\ report.violation_logs[k].query = fn_result.violations[i].query
           /\ report.passed + report.failed = report.total_ecs

\* the sum alone
ReportCountsAddUp ==
    Reported => fn_result.final_report.passed + fn_result.final_report.failed
                  = fn_result.final_report.total_ecs

\* what the report holds instead: every violation record counts as passed
ViolationsCountAsPassed ==
    Reported => /\ fn_result.final_report.failed = 0
                /\ fn_result.final_report.passed = Len(fn_result.violations)

====
